---------------------------- MODULE Spec2Model ----------------------------
(***************************************************************************)
(* Kaolin Routing Format: the trace-graph builder and boundary-walk        *)
(* serializer of eagleToKRF.py, the text container of convertPCB.py /      *)
(* krfTools.py, the read-head decoder krf.traverseNodeList and the 3-byte  *)
(* packer of krfTools.py.                                                  *)
(*                                                                         *)
(* Positions are integer board units (hundredths of an inch).  Angles are  *)
(* compared exactly, by cross and dot products, where the code compares    *)
(* differences of math.atan2 values.                                       *)
(***************************************************************************)
EXTENDS Integers, Sequences, FiniteSets

VARIABLES
    pc,            \* where the conversion pipeline stands
    nodes,         \* signal.nodes: node n is at position nodes[n], in creation order
    attachments,   \* node.attachments: attachments[n] lists the nodes attached to n
    wires,         \* the wire segments handed to addWire so far
    serialStream,  \* the list returned by signal.serialize
    walk,          \* every node the serialize loop stepped on, in order
    krfFile,       \* the lines written by writeKRF
    nodeList,      \* krf.nodeList
    sim,           \* the read head of krf.traverseNodeList and its two lists
    packIn,        \* the descriptor handed to nodeListToByteList
    byteList,      \* the bytes it returned
    unpacked,      \* the nodeList byteListToNodeList made of them
    signals,       \* board.signals: the nodes, attachments and wires of each signal
    boardStream,   \* board.stream: <<s, n>> is node n of signal s
    hexFiles,      \* the files krf.writeHexFile wrote, one list of lines for each call
    recordData,    \* the data list handed to encodeDataRecord
    recordAddress, \* the address handed to it
    record,        \* the record it returned
    krfs           \* krf objects decoding side by side: the nodeList and read head of each

vars == <<pc, nodes, attachments, wires, serialStream, walk, krfFile,
          nodeList, sim, packIn, byteList, unpacked, signals, boardStream, hexFiles,
          recordData, recordAddress, record, krfs>>

sigVars  == <<nodes, attachments, wires>>
packVars == <<packIn, byteList, unpacked>>
boardVars == <<signals, boardStream>>
recVars == <<recordData, recordAddress, record>>

---------------------------------------------------------------------------
(* Bounds and the board used to draw inputs from.                          *)

\* most wire segments in one signal
MaxWires == 5
\* longest descriptor sequence handed directly to the decoder
MaxLen == 6
\* the decoder's pathList is followed up to this length
MaxStops == 12

\* the board positions wires may join: a 2 x 3 grid
PointSeq == << <<0, 0>>, <<0, 1>>, <<0, 2>>, <<1, 0>>, <<1, 1>>, <<1, 2>> >>
Points == {PointSeq[i] : i \in 1..Len(PointSeq)}
PointIndex(p) == CHOOSE i \in 1..Len(PointSeq) : PointSeq[i] = p
\* a wire's place in the order in which the board file lists wires
WireRank(w) == (PointIndex(w[1]) - 1) * Len(PointSeq) + PointIndex(w[2])

\* board.connections: the position-indexed connection table
allConnections ==
    [p \in {<<0, 2>>, <<1, 0>>} |->
        IF p = <<0, 2>> THEN [type |-> "pad", orientation |-> "compressed"]
                        ELSE [type |-> "smd", orientation |-> "horizontal"]]

---------------------------------------------------------------------------
(* eagleToKRF.node                                                         *)

\* node.findConnection
findConnection(position) ==
    IF position \in DOMAIN allConnections
    THEN allConnections[position]
    ELSE [type |-> "none", orientation |-> "none"]

\* node.isEndpoint
isEndpoint(att, n) == Len(att[n]) = 1

\* math.atan2(0, 0) is 0: a zero vector has the angle of <<1, 0>>
Dir(v) == IF v = <<0, 0>> THEN <<1, 0>> ELSE v
Cross(u, v) == u[1] * v[2] - u[2] * v[1]
Dot(u, v) == u[1] * v[1] + u[2] * v[2]

\* the vector whose atan2 is entryAngle: this - entry, or <<1, 0>> without entry
EntryVec(nds, this, entryNode) ==
    IF entryNode = 0 THEN <<1, 0>>
    ELSE Dir(<<nds[this][1] - nds[entryNode][1], nds[this][2] - nds[entryNode][2]>>)

\* the vector whose atan2 is exitAngle: this - exit
ExitVec(nds, this, exitNode) ==
    Dir(<<nds[this][1] - nds[exitNode][1], nds[this][2] - nds[exitNode][2]>>)

\* node.getAngle, as the quarter of the turn totalAngle falls in:
\* 0: 0 deg, 1: (0, 180), 2: 180 deg, 3: (180, 360); getAttachments turns
\* 0 into 4 (360 deg) when an entry node is given
AngleSector(nds, this, entryNode, exitNode) ==
    LET dIn == EntryVec(nds, this, entryNode)
        e == ExitVec(nds, this, exitNode)
        c == Cross(dIn, e)
        dt == Dot(dIn, e)
        s == IF c > 0 THEN 1
             ELSE IF c < 0 THEN 3
             ELSE IF dt < 0 THEN 2 ELSE 0
    IN IF s = 0 /\ entryNode # 0 THEN 4 ELSE s

\* angle(a) < angle(b) for two attachments a, b of node this
AngleLess(nds, this, entryNode, a, b) ==
    LET sa == AngleSector(nds, this, entryNode, a)
        sb == AngleSector(nds, this, entryNode, b)
    IN \/ sa < sb
       \/ /\ sa = sb
          /\ Cross(ExitVec(nds, this, a), ExitVec(nds, this, b)) > 0

\* list.sort(key = angle) is stable: x goes after every element not greater
RECURSIVE InsertByAngle(_, _, _, _, _)
InsertByAngle(nds, this, entryNode, sorted, x) ==
    IF sorted = <<>> THEN <<x>>
    ELSE IF AngleLess(nds, this, entryNode, x, Head(sorted))
         THEN <<x>> \o sorted
         ELSE <<Head(sorted)>> \o InsertByAngle(nds, this, entryNode, Tail(sorted), x)

RECURSIVE SortByAngle(_, _, _, _)
SortByAngle(nds, this, entryNode, list) ==
    IF list = <<>> THEN <<>>
    ELSE InsertByAngle(nds, this, entryNode,
                       SortByAngle(nds, this, entryNode, SubSeq(list, 1, Len(list) - 1)),
                       list[Len(list)])

\* node.getAttachments: the attached nodes sorted by angle (entryNode 0: None)
getAttachments(nds, att, this, entryNode) ==
    SortByAngle(nds, this, entryNode, att[this])

---------------------------------------------------------------------------
(* eagleToKRF.signal                                                       *)

\* signal.doesNodeExist: the first node at that position, 0 for False
doesNodeExist(nds, position) ==
    IF \E n \in 1..Len(nds) : nds[n] = position
    THEN CHOOSE n \in 1..Len(nds) :
            /\ nds[n] = position
            /\ \A m \in 1..(n - 1) : nds[m] # position
    ELSE 0

\* signal.addWire: the nodes and attachments after adding wire <<p1, p2>>
addWire(nds, att, p1, p2) ==
    LET found1 == doesNodeExist(nds, p1)
        found2 == doesNodeExist(nds, p2)
        nds1 == IF found1 = 0 THEN Append(nds, p1) ELSE nds
        att1 == IF found1 = 0 THEN Append(att, <<>>) ELSE att
        startNode == IF found1 = 0 THEN Len(nds1) ELSE found1
        nds2 == IF found2 = 0 THEN Append(nds1, p2) ELSE nds1
        att2 == IF found2 = 0 THEN Append(att1, <<>>) ELSE att1
        endNode == IF found2 = 0 THEN Len(nds2) ELSE found2
        att3 == [att2 EXCEPT ![startNode] = Append(@, endNode)]
        att4 == [att3 EXCEPT ![endNode] = Append(@, startNode)]
    IN [nodes |-> nds2, attachments |-> att4]

\* every node with an attachment taken for an endpoint
getEndpoints_AnyAttached(att) == {n \in 1..Len(att) : Len(att[n]) >= 1}

\* signal.getEndpoints, as a set
getEndpoints(att) == {n \in 1..Len(att) : isEndpoint(att, n)}

\* the first created of the highest endpoints
getStartNode_FirstOfTies(nds, att) ==
    LET eps == {n \in 1..Len(att) : Len(att[n]) = 1}
    IN IF eps = {} THEN 0
       ELSE CHOOSE n \in eps :
               \A m \in eps : \/ nds[m][2] < nds[n][2]
                              \/ nds[m][2] = nds[n][2] /\ m >= n

\* signal.getStartNode: the last of the endpoints stably sorted by Y;
\* 0 when there is no endpoint (endpoints[-1] raises IndexError)
getStartNode(nds, att) ==
    LET eps == getEndpoints(att)
    IN IF eps = {} THEN 0
       ELSE CHOOSE n \in eps :
               \A m \in eps : \/ nds[m][2] < nds[n][2]
                              \/ nds[m][2] = nds[n][2] /\ m <= n

\* the serialize loop from one test of its condition on: traversed[n] is <<>>
\* for a node not in traversedNodes and <<remaining attachments>> otherwise
RECURSIVE SerializeLoop(_, _, _, _, _, _, _, _)
SerializeLoop(nds, att, startNode, lastNode, nextNode, traversed, stream, stepped) ==
    IF nextNode = startNode
    THEN [status |-> "returned", stream |-> stream, walk |-> Append(stepped, nextNode)]
    ELSE LET fresh == traversed[nextNode] = <<>>
             stream1 == IF fresh THEN Append(stream, nextNode) ELSE stream
             remaining == IF fresh
                          THEN getAttachments(nds, att, nextNode, lastNode)
                          ELSE traversed[nextNode][1]
         IN IF remaining = <<>>
            THEN [status |-> "IndexError", stream |-> stream1,
                  walk |-> Append(stepped, nextNode)]
            ELSE SerializeLoop(nds, att, startNode, nextNode, Head(remaining),
                               [traversed EXCEPT ![nextNode] = <<Tail(remaining)>>],
                               stream1, Append(stepped, nextNode))

\* signal.serialize
serialize(nds, att) ==
    LET startNode == getStartNode(nds, att)
    IN IF startNode = 0
       THEN [status |-> "IndexError", stream |-> <<>>, walk |-> <<>>]
       ELSE SerializeLoop(nds, att, startNode, startNode,
                          getAttachments(nds, att, startNode, 0)[1],
                          [n \in 1..Len(nds) |-> <<>>],
                          <<startNode>>, <<startNode>>)

---------------------------------------------------------------------------
(* The text container: node.nodeString, convertPCB.writeKRF and            *)
(* krf.loadFromFile.                                                       *)

routingDict == [n \in 0..3 |-> <<"I", "E", "M", "T">>[n + 1]]
connectionDict == [t \in {"none", "pad", "smd", "hole"} |->
    CASE t = "none" -> "N" [] t = "pad" -> "P" [] t = "smd" -> "S" [] OTHER -> "H"]
orientationDict == [o \in {"vertical", "horizontal", "compressed", "none"} |->
    CASE o = "vertical" -> "V" [] o = "horizontal" -> "Z"
      [] o = "compressed" -> "C" [] OTHER -> "X"]

\* node.nodeString: the three letters, or "None" for more than 3 attachments
nodeString(nds, att, n) ==
    IF Len(att[n]) \in DOMAIN routingDict
    THEN <<routingDict[Len(att[n])],
           connectionDict[findConnection(nds[n]).type],
           orientationDict[findConnection(nds[n]).orientation]>>
    ELSE "None"

\* convertPCB.writeKRF: one line per node of the stream; adding None to a
\* string raises TypeError
writeKRF(nds, att, stream) ==
    IF \E i \in 1..Len(stream) : nodeString(nds, att, stream[i]) = "None"
    THEN [status |-> "TypeError", lines |-> <<>>]
    ELSE [status |-> "written",
          lines |-> [i \in 1..Len(stream) |->
                        [index |-> i,
                         descriptor |-> nodeString(nds, att, stream[i]),
                         x |-> nds[stream[i]][1],
                         y |-> nds[stream[i]][2]]]]

routingOfCode(c) ==
    CASE c = "E" -> "endpoint" [] c = "M" -> "midpoint" [] c = "T" -> "tee"
      [] c = "I" -> "isolated"
connectionOfCode(c) ==
    CASE c = "N" -> "none" [] c = "P" -> "pad" [] c = "S" -> "smd" [] c = "H" -> "hole"
\* a table that reads V as horizontal and Z as vertical
orientationOfCode_Swapped(c) ==
    CASE c = "V" -> "horizontal" [] c = "Z" -> "vertical" [] c = "C" -> "compressed"
      [] c = "X" -> "none"
orientationOfCode(c) ==
    CASE c = "V" -> "vertical" [] c = "Z" -> "horizontal" [] c = "C" -> "compressed"
      [] c = "X" -> "none"

\* krf.loadFromFile
loadFromFile(lines) ==
    [i \in 1..Len(lines) |->
        [node |-> lines[i].index,
         routing |-> routingOfCode(lines[i].descriptor[1]),
         connection |-> connectionOfCode(lines[i].descriptor[2]),
         orientation |-> orientationOfCode(lines[i].descriptor[3]),
         xPosition |-> lines[i].x,
         yPosition |-> lines[i].y]]

---------------------------------------------------------------------------
(* krf.traverseNodeList: the read head.  Positions are the code's 0-based  *)
(* indices; direction 1 is forwards, 0 is reverse.                         *)

Pow2(n) == 2 ^ n

\* krf.sim_initializeParameters, with the two empty lists of traverseNodeList
sim_initializeParameters ==
    [pathStartPosition |-> 0, currentPosition |-> 0, terminalPosition |-> 0,
     junctionRecord |-> 0, currentJunctionPosition |-> 0,
     direction |-> 1, passive |-> 0,
     pathList |-> <<>>, travelList |-> <<>>, pc |-> "loop"]

\* the fields that decide what the loop does next
ReadHead(s) ==
    <<s.pathStartPosition, s.currentPosition, s.terminalPosition, s.junctionRecord,
      s.currentJunctionPosition, s.direction, s.passive, s.pc>>

sim_isFirstNodeInPath(s) == s.currentPosition = s.pathStartPosition

sim_startPath(s) ==
    [s EXCEPT !.pathStartPosition = s.currentPosition,
              !.junctionRecord = 0,
              !.currentJunctionPosition = 0,
              !.passive = 0]

\* a forward step that leaves terminal where it was
sim_goForward_KeepsTerminal(s) ==
    [s EXCEPT !.currentPosition = s.currentPosition + 1,
              !.direction = 1]

sim_goForward(s) ==
    [s EXCEPT !.currentPosition = s.currentPosition + 1,
              !.terminalPosition = s.currentPosition + 1,
              !.direction = 1]

sim_goReverse(s) ==
    [s EXCEPT !.currentPosition = s.currentPosition - 1,
              !.direction = 0]

\* a resumption that leaves the junction position where the reverse read left it
sim_skipTerminal_KeepsDepth(s) ==
    [s EXCEPT !.terminalPosition = s.terminalPosition + 1,
              !.currentPosition = s.terminalPosition + 1,
              !.direction = 1]

sim_skipTerminal(s) ==
    [s EXCEPT !.terminalPosition = s.terminalPosition + 1,
              !.currentPosition = s.terminalPosition + 1,
              !.direction = 1,
              !.currentJunctionPosition = 0]

\* a read head that never becomes passive
sim_setPassive_Nothing(s) == s

sim_setPassive(s) == [s EXCEPT !.passive = 1]

sim_setActive(s) == [s EXCEPT !.passive = 0]

\* a junction opened with two branches left to walk instead of three
sim_newJunction_TwoBranches(s) ==
    [s EXCEPT !.junctionRecord = s.junctionRecord * 4 + 2,
              !.currentJunctionPosition = 0]

\* a junction appended at the high-order end of the record
sim_newJunction_HighOrder(s) ==
    LET slots == CHOOSE n \in 0..64 :
                    s.junctionRecord < 4 ^ n /\ (n = 0 \/ s.junctionRecord >= 4 ^ (n - 1))
    IN [s EXCEPT !.junctionRecord = s.junctionRecord + 4 ^ slots,
                 !.currentJunctionPosition = 0]

sim_newJunction(s) ==
    [s EXCEPT !.junctionRecord = s.junctionRecord * 4 + 1,
              !.currentJunctionPosition = 0]

\* (junctionRecord >> currentJunctionPosition) & 0b11
junctionState(s) == (s.junctionRecord \div Pow2(s.currentJunctionPosition)) % 4

\* a visit that opens a closed junction again
sim_visitJunction_Reopening(s) ==
    LET js == (s.junctionRecord \div (2 ^ s.currentJunctionPosition)) % 4
        moved == [s EXCEPT !.currentJunctionPosition = s.currentJunctionPosition + 2]
    IN CASE js = 1 ->
              [state |-> [moved EXCEPT !.junctionRecord =
                             s.junctionRecord + 2 ^ s.currentJunctionPosition],
               returned |-> "2"]
         [] js = 2 ->
              [state |-> [moved EXCEPT !.junctionRecord =
                             s.junctionRecord - 2 * (2 ^ s.currentJunctionPosition)],
               returned |-> "3"]
         [] js = 0 ->
              [state |-> [moved EXCEPT !.junctionRecord =
                             s.junctionRecord + 2 ^ s.currentJunctionPosition],
               returned |-> "0"]
         [] OTHER -> [state |-> s, returned |-> "None"]

\* a visit that leaves the junction position where it is at a closed junction
sim_visitJunction_StaysAtClosed(s) ==
    LET js == (s.junctionRecord \div (2 ^ s.currentJunctionPosition)) % 4
        moved == [s EXCEPT !.currentJunctionPosition = s.currentJunctionPosition + 2]
    IN CASE js = 1 ->
              [state |-> [moved EXCEPT !.junctionRecord =
                             s.junctionRecord + 2 ^ s.currentJunctionPosition],
               returned |-> "2"]
         [] js = 2 ->
              [state |-> [moved EXCEPT !.junctionRecord =
                             s.junctionRecord - 2 * (2 ^ s.currentJunctionPosition)],
               returned |-> "3"]
         [] js = 0 -> [state |-> s, returned |-> "0"]
         [] OTHER -> [state |-> s, returned |-> "None"]

\* krf.sim_visitJunction: the state after the visit and the value returned
\* ("None" when no branch returns)
sim_visitJunction(s) ==
    LET js == junctionState(s)
        moved == [s EXCEPT !.currentJunctionPosition = s.currentJunctionPosition + 2]
    IN CASE js = 1 ->
              [state |-> [moved EXCEPT !.junctionRecord =
                             s.junctionRecord + Pow2(s.currentJunctionPosition)],
               returned |-> "2"]
         [] js = 2 ->
              [state |-> [moved EXCEPT !.junctionRecord =
                             s.junctionRecord - 2 * Pow2(s.currentJunctionPosition)],
               returned |-> "3"]
         [] js = 0 -> [state |-> moved, returned |-> "0"]
         [] OTHER -> [state |-> s, returned |-> "None"]

\* nodeList[position]: a negative position counts from the end of the list
InRange(nl, position) == -Len(nl) <= position /\ position < Len(nl)
ReadNode(nl, position) ==
    IF position >= 0 THEN nl[position + 1] ELSE nl[Len(nl) + position + 1]

emit(s, node) == [s EXCEPT !.pathList = Append(s.pathList, node)]
closePath(s) == [s EXCEPT !.travelList = Append(s.travelList, s.pathList),
                          !.pathList = <<>>]

\* a forward branch that opens a path at an Isolated descriptor as at any other
GoingForwards_IsolatedOpensPath(nl, s, node) ==
    LET s1 == [s EXCEPT !.pathList = Append(s.pathList, node)]
    IN IF s1.currentPosition = s1.pathStartPosition
       THEN [s1 EXCEPT !.currentPosition = s1.currentPosition + 1,
                       !.terminalPosition = s1.currentPosition + 1,
                       !.direction = 1]
       ELSE CASE node.routing = "endpoint" -> [s1 EXCEPT !.currentPosition = s1.currentPosition - 1,
                                                         !.direction = 0]
              [] node.routing = "midpoint" ->
                   [s1 EXCEPT !.currentPosition = s1.currentPosition + 1,
                              !.terminalPosition = s1.currentPosition + 1,
                              !.direction = 1]
              [] node.routing = "tee" ->
                   [s1 EXCEPT !.currentPosition = s1.currentPosition + 1,
                              !.terminalPosition = s1.currentPosition + 1,
                              !.direction = 1,
                              !.junctionRecord = s1.junctionRecord * 4 + 1,
                              !.currentJunctionPosition = 0]
              [] OTHER -> s1

\* the branch "if self.sim_direction == 1"
GoingForwards(nl, s, node) ==
    LET s1 == emit(s, node)
    IN IF sim_isFirstNodeInPath(s1)
       THEN LET s2 == sim_goForward(s1)
            IN IF node.routing = "isolated"
               THEN sim_startPath(closePath(s2))
               ELSE s2
       ELSE CASE node.routing = "endpoint" -> sim_goReverse(s1)
              [] node.routing = "midpoint" -> sim_goForward(s1)
              [] node.routing = "tee" -> sim_goForward(sim_newJunction(s1))
              [] OTHER -> s1

\* the reverse branch without the stop at the start of the path
GoingInReverse_NoClosingStop(nl, s, node) ==
    IF sim_isFirstNodeInPath(s)
    THEN LET s1 == sim_skipTerminal(s)
         IN IF s1.currentPosition < Len(nl)
            THEN sim_startPath(closePath(s1))
            ELSE [closePath(s1) EXCEPT !.pc = "returned"]
    ELSE CASE node.routing = "endpoint" -> sim_goReverse(sim_setPassive(s))
           [] node.routing = "midpoint" ->
                IF s.passive = 1 THEN sim_goReverse(s)
                ELSE sim_goReverse(emit(s, node))
           [] node.routing = "tee" ->
                LET v == sim_visitJunction(s)
                IN CASE v.returned = "2" ->
                          sim_skipTerminal(sim_setActive(emit(v.state, node)))
                     [] v.returned = "3" ->
                          sim_goReverse(sim_setActive(emit(v.state, node)))
                     [] v.returned = "0" -> sim_setPassive(sim_goReverse(v.state))
                     [] OTHER -> v.state
           [] OTHER -> s

\* a reverse branch that passes through a Tee on its second visit as it does
\* on its third
GoingInReverse_PassThrough(nl, s, node) ==
    IF sim_isFirstNodeInPath(s)
    THEN LET s1 == sim_skipTerminal(emit(s, node))
         IN IF s1.currentPosition < Len(nl)
            THEN sim_startPath(closePath(s1))
            ELSE [closePath(s1) EXCEPT !.pc = "returned"]
    ELSE CASE node.routing = "endpoint" -> sim_goReverse(sim_setPassive(s))
           [] node.routing = "midpoint" ->
                IF s.passive = 1 THEN sim_goReverse(s)
                ELSE sim_goReverse(emit(s, node))
           [] node.routing = "tee" ->
                LET v == sim_visitJunction(s)
                IN CASE v.returned \in {"2", "3"} ->
                          sim_goReverse(sim_setActive(emit(v.state, node)))
                     [] v.returned = "0" -> sim_setPassive(sim_goReverse(v.state))
                     [] OTHER -> v.state
           [] OTHER -> s

\* the branch "if self.sim_direction == 0"
GoingInReverse(nl, s, node) ==
    IF sim_isFirstNodeInPath(s)
    THEN LET s1 == sim_skipTerminal(emit(s, node))
         IN IF s1.currentPosition < Len(nl)
            THEN sim_startPath(closePath(s1))
            ELSE [closePath(s1) EXCEPT !.pc = "returned"]
    ELSE CASE node.routing = "endpoint" -> sim_goReverse(sim_setPassive(s))
           [] node.routing = "midpoint" ->
                IF s.passive = 1 THEN sim_goReverse(s)
                ELSE sim_goReverse(emit(s, node))
           [] node.routing = "tee" ->
                LET v == sim_visitJunction(s)
                IN CASE v.returned = "2" ->
                          sim_skipTerminal(sim_setActive(emit(v.state, node)))
                     [] v.returned = "3" ->
                          sim_goReverse(sim_setActive(emit(v.state, node)))
                     [] v.returned = "0" -> sim_setPassive(sim_goReverse(v.state))
                     [] OTHER -> v.state
           [] OTHER -> s

\* an iteration that returns the paths found so far when the read head has
\* left the list
\* an iteration that reads past the end of the list as a read from its start
LoopIteration_WrapsAtEnd(nl, s) ==
    IF Len(nl) = 0
    THEN [s EXCEPT !.pc = "IndexError"]
    ELSE IF s.direction = 1
         THEN GoingForwards(nl, s, ReadNode(nl, s.currentPosition % Len(nl)))
         ELSE GoingInReverse(nl, s, ReadNode(nl, s.currentPosition % Len(nl)))

LoopIteration_ReturnsAtEnd(nl, s) ==
    IF ~InRange(nl, s.currentPosition)
    THEN [closePath(s) EXCEPT !.pc = "returned"]
    ELSE IF s.direction = 1
         THEN GoingForwards(nl, s, ReadNode(nl, s.currentPosition))
         ELSE GoingInReverse(nl, s, ReadNode(nl, s.currentPosition))

\* one iteration of "while True"
LoopIteration(nl, s) ==
    IF ~InRange(nl, s.currentPosition)
    THEN [s EXCEPT !.pc = "IndexError"]
    ELSE IF s.direction = 1
         THEN GoingForwards(nl, s, ReadNode(nl, s.currentPosition))
         ELSE GoingInReverse(nl, s, ReadNode(nl, s.currentPosition))

\* the loop run until it returns or raises; an iteration that leaves the read
\* head as it found it repeats for ever, which pc = "hang" stands for
RECURSIVE RunLoop(_, _)
RunLoop(nl, s) ==
    IF s.pc # "loop" THEN s
    ELSE LET t == LoopIteration(nl, s)
         IN IF ReadHead(t) = ReadHead(s)
            THEN [t EXCEPT !.pc = "hang"]
            ELSE RunLoop(nl, t)

\* krf.traverseNodeList
traverseNodeList(nl) == RunLoop(nl, sim_initializeParameters)

\* a later call that starts from the positions the call before left
traverseNodeListAgain_KeepsPositions(nl, s) ==
    RunLoop(nl, [s EXCEPT !.travelList = <<>>,
                          !.pathList = <<>>,
                          !.junctionRecord = 0,
                          !.currentJunctionPosition = 0,
                          !.direction = 1,
                          !.passive = 0,
                          !.pc = "loop"])

\* krf.traverseNodeList called on an instance that an earlier call left in
\* state s: travelList and pathList are new lists and sim_initializeParameters
\* assigns every field of the read head
traverseNodeListAgain(nl, s) ==
    RunLoop(nl, [s EXCEPT !.travelList = <<>>,
                          !.pathList = <<>>,
                          !.pathStartPosition = 0,
                          !.currentPosition = 0,
                          !.terminalPosition = 0,
                          !.junctionRecord = 0,
                          !.currentJunctionPosition = 0,
                          !.direction = 1,
                          !.passive = 0,
                          !.pc = "loop"])

---------------------------------------------------------------------------
(* The conversion of one signal: wires are added in the order the board    *)
(* file lists them, the signal is serialized, written, loaded and decoded. *)

\* krf.generateTerminatingNode
generateTerminatingNode(nl) ==
    <<[node |-> Len(nl) + 1, routing |-> "isolated", connection |-> "none",
       orientation |-> "none", xPosition |-> 0, yPosition |-> 0]>>

NoDescriptor ==
    [node |-> 0, routing |-> "isolated", connection |-> "none",
     orientation |-> "none", xPosition |-> 0, yPosition |-> 0]

Init ==
    /\ pc = "build"
    /\ recordData = <<>>
    /\ recordAddress = 0
    /\ record = <<>>
    /\ krfs = <<>>
    /\ nodes = <<>>
    /\ attachments = <<>>
    /\ wires = <<>>
    /\ serialStream = <<>>
    /\ walk = <<>>
    /\ krfFile = <<>>
    /\ nodeList = <<>>
    /\ sim = sim_initializeParameters
    /\ packIn = NoDescriptor
    /\ byteList = <<>>
    /\ unpacked = <<>>
    /\ signals = <<>>
    /\ boardStream = <<>>
    /\ hexFiles = <<>>

\* signal.__init__: "for wire in self.wires: self.addWire(wire)", one wire
AddWire(p1, p2) ==
    /\ pc = "build"
    /\ Len(wires) < MaxWires
    /\ PointIndex(p1) < PointIndex(p2)
    /\ wires # <<>> => WireRank(wires[Len(wires)]) < WireRank(<<p1, p2>>)
    /\ LET g == addWire(nodes, attachments, p1, p2)
       IN /\ nodes' = g.nodes
          /\ attachments' = g.attachments
    /\ wires' = Append(wires, <<p1, p2>>)
    /\ UNCHANGED <<pc, serialStream, walk, krfFile, nodeList, sim, packVars, boardVars, hexFiles, recVars, krfs>>

\* board.__init__: "self.stream += thisSignal.serialize()"
Serialize ==
    /\ pc = "build"
    /\ wires # <<>>
    /\ LET r == serialize(nodes, attachments)
       IN /\ serialStream' = r.stream
          /\ walk' = r.walk
          /\ pc' = IF r.status = "returned" THEN "serialized" ELSE "serializeError"
    /\ UNCHANGED <<sigVars, krfFile, nodeList, sim, packVars, boardVars, hexFiles, recVars, krfs>>

\* convertPCB.writeKRF on the stream
WriteKRF ==
    /\ pc = "serialized"
    /\ LET r == writeKRF(nodes, attachments, serialStream)
       IN /\ krfFile' = r.lines
          /\ pc' = IF r.status = "written" THEN "written" ELSE "writeError"
    /\ UNCHANGED <<sigVars, serialStream, walk, nodeList, sim, packVars, boardVars, hexFiles, recVars, krfs>>

\* krf.loadFromFile on the file written
LoadFromFile ==
    /\ pc = "written"
    /\ nodeList' = loadFromFile(krfFile)
    /\ pc' = "loaded"
    /\ UNCHANGED <<sigVars, serialStream, walk, krfFile, sim, packVars, boardVars, hexFiles, recVars, krfs>>

\* the stored sequence loses its tail: only its first k descriptors are left
Truncate(k) ==
    /\ pc = "loaded"
    /\ k \in 1..(Len(nodeList) - 1)
    /\ nodeList' = SubSeq(nodeList, 1, k)
    /\ pc' = "truncated"
    /\ UNCHANGED <<sigVars, serialStream, walk, krfFile, sim, packVars, boardVars, hexFiles, recVars, krfs>>

\* the stored sequence ends with the end-of-data descriptor, as in memory
AppendTerminator ==
    /\ pc = "loaded"
    /\ nodeList' = nodeList \o generateTerminatingNode(nodeList)
    /\ pc' = "terminated"
    /\ UNCHANGED <<sigVars, serialStream, walk, krfFile, sim, packVars, boardVars, hexFiles, recVars, krfs>>

\* krf.traverseNodeList on the loaded (or truncated, or terminated) sequence
TraverseNodeList ==
    /\ pc \in {"loaded", "truncated", "terminated"}
    /\ sim' = traverseNodeList(nodeList)
    /\ pc' = CASE pc = "loaded" -> "traversed"
                [] pc = "truncated" -> "traversedTruncated"
                [] pc = "terminated" -> "traversedTerminated"
    /\ UNCHANGED <<sigVars, serialStream, walk, krfFile, nodeList, packVars, boardVars, hexFiles, recVars, krfs>>

\* a second call of krf.traverseNodeList on the same instance
TraverseNodeListAgain ==
    /\ pc \in {"traversed", "traversedTruncated", "traversedTerminated"}
    /\ sim' = traverseNodeListAgain(nodeList, sim)
    /\ pc' = "traversedAgain"
    /\ UNCHANGED <<sigVars, serialStream, walk, krfFile, nodeList, packVars, boardVars, hexFiles, recVars, krfs>>

Next ==
    \/ \E p1 \in Points, p2 \in Points : AddWire(p1, p2)
    \/ Serialize
    \/ WriteKRF
    \/ LoadFromFile
    \/ \E k \in 1..(2 * MaxWires) : Truncate(k)
    \/ AppendTerminator
    \/ TraverseNodeList
    \/ TraverseNodeListAgain

Spec == Init /\ [][Next]_vars

---------------------------------------------------------------------------
(* The decoder alone, one loop iteration at a time, on any sequence of     *)
(* descriptors.                                                            *)

Routings == {"endpoint", "midpoint", "tee", "isolated"}
Connections == {"none", "pad", "smd", "hole"}
Orientations == {"vertical", "horizontal", "compressed", "none"}

\* the nodeList whose descriptors have the routings rs, in that order
NodeListOf(rs) ==
    [i \in 1..Len(rs) |->
        [node |-> i, routing |-> rs[i], connection |-> "none",
         orientation |-> "none", xPosition |-> 0, yPosition |-> 0]]

InitDecode ==
    /\ pc = "decode"
    /\ recordData = <<>>
    /\ recordAddress = 0
    /\ record = <<>>
    /\ krfs = <<>>
    /\ \E n \in 0..MaxLen : \E rs \in [1..n -> Routings] : nodeList = NodeListOf(rs)
    /\ sim = sim_initializeParameters
    /\ nodes = <<>>
    /\ attachments = <<>>
    /\ wires = <<>>
    /\ serialStream = <<>>
    /\ walk = <<>>
    /\ krfFile = <<>>
    /\ packIn = NoDescriptor
    /\ byteList = <<>>
    /\ unpacked = <<>>
    /\ signals = <<>>
    /\ boardStream = <<>>
    /\ hexFiles = <<>>

\* one pass through the body of "while True"
Iterate ==
    /\ pc = "decode"
    /\ sim.pc = "loop"
    /\ Len(sim.pathList) < MaxStops
    /\ sim' = LoopIteration(nodeList, sim)
    /\ UNCHANGED <<pc, sigVars, serialStream, walk, krfFile, nodeList, packVars, boardVars, hexFiles, recVars, krfs>>

NextDecode == Iterate

SpecDecode == InitDecode /\ [][NextDecode]_vars

---------------------------------------------------------------------------
(* Two krf objects decoding side by side: each pass of "while True" of one *)
(* of them is a step, in any order.                                        *)

\* most descriptors in the nodeList of the first object
MaxPairLen == 4

\* the nodeLists of the second object: one wire, a tee of three wires, an
\* isolated node before a two-wire chain
Companions ==
    {NodeListOf(<<"endpoint", "endpoint">>),
     NodeListOf(<<"endpoint", "tee", "endpoint", "endpoint">>),
     NodeListOf(<<"isolated", "endpoint", "midpoint", "endpoint">>)}

\* krf.__init__ and the first lines of traverseNodeList
newKrf(nl) == [nodeList |-> nl, sim |-> sim_initializeParameters]

\* a pass in which the read head is kept by the class, not by the object:
\* what object k writes to it, every object sees
iterateInstance_SharedHead(ks, k) ==
    LET t == LoopIteration(ks[k].nodeList, ks[k].sim)
    IN [j \in 1..Len(ks) |->
           IF j = k THEN [ks[j] EXCEPT !.sim = t]
           ELSE [ks[j] EXCEPT !.sim.pathStartPosition = t.pathStartPosition,
                              !.sim.currentPosition = t.currentPosition,
                              !.sim.terminalPosition = t.terminalPosition,
                              !.sim.junctionRecord = t.junctionRecord,
                              !.sim.currentJunctionPosition = t.currentJunctionPosition,
                              !.sim.direction = t.direction,
                              !.sim.passive = t.passive]]

\* one pass of "while True" in object k: it reads self.nodeList and reads
\* and writes the self.sim_ attributes and its own two lists
iterateInstance(ks, k) ==
    [ks EXCEPT ![k].sim = LoopIteration(ks[k].nodeList, ks[k].sim)]

InitPair ==
    /\ pc = "pair"
    /\ \E n \in 1..MaxPairLen : \E rs \in [1..n -> Routings] : \E nl \in Companions :
          krfs = <<newKrf(NodeListOf(rs)), newKrf(nl)>>
    /\ recordData = <<>>
    /\ recordAddress = 0
    /\ record = <<>>
    /\ nodes = <<>>
    /\ attachments = <<>>
    /\ wires = <<>>
    /\ serialStream = <<>>
    /\ walk = <<>>
    /\ krfFile = <<>>
    /\ nodeList = <<>>
    /\ sim = sim_initializeParameters
    /\ packIn = NoDescriptor
    /\ byteList = <<>>
    /\ unpacked = <<>>
    /\ signals = <<>>
    /\ boardStream = <<>>
    /\ hexFiles = <<>>

\* object k runs one pass of its loop
IterateIn(k) ==
    /\ pc = "pair"
    /\ krfs[k].sim.pc = "loop"
    /\ Len(krfs[k].sim.pathList) < MaxStops
    /\ krfs' = iterateInstance(krfs, k)
    /\ UNCHANGED <<pc, sigVars, serialStream, walk, krfFile, nodeList, sim, packVars,
                   boardVars, hexFiles, recVars>>

NextPair == \E k \in 1..2 : IterateIn(k)

SpecPair == InitPair /\ [][NextPair]_vars

---------------------------------------------------------------------------
(* krf.nodeListToByteList and krf.byteListToNodeList.  A coordinate is     *)
(* held as the number k of hundredths of an inch it denotes, standing for  *)
(* the float nearest to k / 100.                                           *)

\* the k in 0 .. 1023 for which float(k / 100) * 100 falls below k in IEEE
\* doubles, so that int() gives k - 1
TruncLoss ==
    {29, 57, 58, 113, 114, 115, 116, 201, 203, 205, 207, 226, 228, 230, 232,
     251, 253, 255, 402, 406, 410, 414, 427, 431, 435, 439, 452, 456, 460,
     464, 477, 481, 485, 489, 502, 506, 510,
     803, 804, 812, 820, 828, 829, 837, 845, 853, 854, 862, 870, 878, 879,
     887, 895, 903, 904, 912, 920, 928, 929, 937, 945, 953, 954, 962, 970,
     978, 979, 987, 995, 1003, 1004, 1012, 1020}

\* int(node["xPosition"] * 100)
Hundredths(k) == IF k \in TruncLoss THEN k - 1 ELSE k

routingBits == [r \in Routings |->
    CASE r = "endpoint" -> 0 [] r = "midpoint" -> 4194304
      [] r = "tee" -> 8388608 [] OTHER -> 12582912]
connectionBits == [c \in Connections |->
    CASE c = "none" -> 0 [] c = "pad" -> 1048576
      [] c = "smd" -> 2097152 [] OTHER -> 3145728]
orientationBits == [o \in Orientations |->
    CASE o = "vertical" -> 0 [] o = "horizontal" -> 262144
      [] o = "compressed" -> 524288 [] OTHER -> 786432]

\* encodedValue for one node
encodedValue(node) ==
    routingBits[node.routing] + connectionBits[node.connection]
    + orientationBits[node.orientation]
    + Hundredths(node.xPosition) * 512
    + Hundredths(node.yPosition)

\* the three bytes least significant first
BigEndian_Reversed(v) == <<v % 256, (v \div 256) % 256, (v \div 65536) % 256>>

\* [(v & 0xFF0000) >> 16, (v & 0x00FF00) >> 8, v & 0x0000FF]
BigEndian(v) == <<(v \div 65536) % 256, (v \div 256) % 256, v % 256>>

\* krf.nodeListToByteList
RECURSIVE nodeListToByteList(_)
nodeListToByteList(nl) ==
    IF nl = <<>> THEN <<>>
    ELSE BigEndian(encodedValue(Head(nl))) \o nodeListToByteList(Tail(nl))

\* encodedValue for one node in encodeNodeList of writeHexFile.py: Y above X
encodeNodeList_encodedValue(node) ==
    routingBits[node.routing] + connectionBits[node.connection]
    + orientationBits[node.orientation]
    + Hundredths(node.yPosition) * 512
    + Hundredths(node.xPosition)

\* encodeNodeList of writeHexFile.py
RECURSIVE encodeNodeList(_)
encodeNodeList(nl) ==
    IF nl = <<>> THEN <<>>
    ELSE BigEndian(encodeNodeList_encodedValue(Head(nl))) \o encodeNodeList(Tail(nl))

\* krf.memoryListToByteList: triplets of a flat list of bytes
memoryListToByteList(memoryList) ==
    [i \in 1..(Len(memoryList) \div 3) |-> SubSeq(memoryList, 3 * i - 2, 3 * i)]

routingDecoded == <<"endpoint", "midpoint", "tee", "isolated">>
connectionDecoded == <<"none", "pad", "smd", "hole">>
orientationDecoded == <<"vertical", "horizontal", "compressed", "none">>

\* one triplet of krf.byteListToNodeList
decodeTriplet(index, triplet) ==
    [node |-> index,
     routing |-> routingDecoded[((triplet[1] \div 64) % 4) + 1],
     connection |-> connectionDecoded[((triplet[1] \div 16) % 4) + 1],
     orientation |-> orientationDecoded[((triplet[1] \div 4) % 4) + 1],
     xPosition |-> (triplet[1] % 4) * 128 + (triplet[2] \div 2),
     yPosition |-> (triplet[2] % 2) * 256 + triplet[3]]

\* krf.byteListToNodeList
byteListToNodeList(triplets) ==
    [i \in 1..Len(triplets) |-> decodeTriplet(i, triplets[i])]

\* the coordinates descriptors are drawn from: both ends of the 9-bit range,
\* the first values past it, and values on both sides of a lost hundredth
CoordSamples == {0, 1, 28, 29, 30, 255, 256, 509, 510, 511, 512, 513, 1023}
ClassSamples == {<<"endpoint", "none", "vertical">>, <<"midpoint", "smd", "horizontal">>,
                 <<"tee", "pad", "compressed">>, <<"isolated", "hole", "none">>}

Descriptor(r, c, o, x, y) ==
    [node |-> 1, routing |-> r, connection |-> c, orientation |-> o,
     xPosition |-> x, yPosition |-> y]

InitPack ==
    /\ pc = "pack"
    /\ recordData = <<>>
    /\ recordAddress = 0
    /\ record = <<>>
    /\ krfs = <<>>
    /\ \/ \E r \in Routings, c \in Connections, o \in Orientations,
            x \in CoordSamples, y \in CoordSamples :
                packIn = Descriptor(r, c, o, x, y)
       \/ \E cl \in ClassSamples, x \in 0..512, y \in CoordSamples :
                packIn = Descriptor(cl[1], cl[2], cl[3], x, y)
       \/ \E cl \in ClassSamples, x \in CoordSamples, y \in 0..512 :
                packIn = Descriptor(cl[1], cl[2], cl[3], x, y)
    /\ byteList = <<>>
    /\ unpacked = <<>>
    /\ nodes = <<>>
    /\ attachments = <<>>
    /\ wires = <<>>
    /\ serialStream = <<>>
    /\ walk = <<>>
    /\ krfFile = <<>>
    /\ nodeList = <<>>
    /\ sim = sim_initializeParameters
    /\ signals = <<>>
    /\ boardStream = <<>>
    /\ hexFiles = <<>>

\* krf.nodeListToByteList on the one-descriptor list
Pack ==
    /\ pc = "pack"
    /\ byteList' = nodeListToByteList(<<packIn>>)
    /\ pc' = "packed"
    /\ UNCHANGED <<sigVars, serialStream, walk, krfFile, nodeList, sim, packIn, unpacked,
                   boardVars, hexFiles, recVars, krfs>>

\* krf.loadFromChip: memoryListToByteList, then byteListToNodeList
Unpack ==
    /\ pc = "packed"
    /\ unpacked' = byteListToNodeList(memoryListToByteList(byteList))
    /\ pc' = "unpacked"
    /\ UNCHANGED <<sigVars, serialStream, walk, krfFile, nodeList, sim, packIn, byteList,
                   boardVars, hexFiles, recVars, krfs>>

\* writeHexFile.py on the one-descriptor list: the bytes it hands to hexFile
EncodeNodeList ==
    /\ pc \in {"pack", "packed"}
    /\ recordData = <<>>
    /\ recordData' = encodeNodeList(<<packIn>>)
    /\ UNCHANGED <<pc, sigVars, serialStream, walk, krfFile, nodeList, sim, packVars,
                   boardVars, hexFiles, recordAddress, record, krfs>>

NextPack == Pack \/ Unpack \/ EncodeNodeList

SpecPack == InitPack /\ [][NextPack]_vars

---------------------------------------------------------------------------
(* krf.writeHexFile: the packed nodeList and its terminator as the lines   *)
(* of an Intel hex file.  A line is the sequence of its characters.        *)

\* most descriptors in a nodeList written to a hex file
MaxHexNodes == 5
\* most calls of writeHexFile on one krf object
MaxWrites == 2

\* the default startAddress, 0x1A00, and maxByteCount of writeHexFile
DefaultStartAddress == 6656
DefaultMaxByteCount == 16

HexChars == <<"0", "1", "2", "3", "4", "5", "6", "7",
              "8", "9", "A", "B", "C", "D", "E", "F">>

\* str(hex(value))[2:].upper()
RECURSIVE hexDigits(_)
hexDigits(value) ==
    IF value < 16 THEN <<HexChars[value + 1]>>
    ELSE Append(hexDigits(value \div 16), HexChars[(value % 16) + 1])

\* krf.hexString: zeros in front up to numBytes * 2 characters, never cut
hexString(value, numBytes) ==
    LET encoding == hexDigits(value)
        missing == numBytes * 2 - Len(encoding)
    IN [i \in 1..(IF missing > 0 THEN missing ELSE 0) |-> "0"] \o encoding

RECURSIVE hexOfBytes(_)
hexOfBytes(data) ==
    IF data = <<>> THEN <<>> ELSE hexString(Head(data), 1) \o hexOfBytes(Tail(data))

RECURSIVE sumOfBytes(_)
sumOfBytes(data) == IF data = <<>> THEN 0 ELSE Head(data) + sumOfBytes(Tail(data))

\* the checksum encodeDataRecord computes: ((checksum & 0xFF) ^ 0xFF) + 1) & 0xFF
checksumOf(data) == ((255 - (sumOfBytes(data) % 256)) + 1) % 256

\* an encodeDataRecord that ends the record with the checksum it computed
encodeDataRecord_Checksummed(data, address) ==
    <<":">> \o hexString(Len(data), 1) \o hexString(address, 2) \o <<"0", "0">>
        \o hexOfBytes(data) \o hexString(checksumOf(data), 1)

\* krf.encodeDataRecord for a non-empty data list: the record ends with
\* hexString(dataByte, 1), dataByte being the last data byte
encodeDataRecord(data, address) ==
    <<":">> \o hexString(Len(data), 1) \o hexString(address, 2) \o <<"0", "0">>
        \o hexOfBytes(data) \o hexString(data[Len(data)], 1)

\* the end record ":00000001FF"
EndRecord == <<":", "0", "0", "0", "0", "0", "0", "0", "1", "F", "F">>

\* a writeHexFile that appends the terminator to self.nodeList itself
writeHexFile_Appending(nl, startAddress, maxByteCount) ==
    LET kept == nl \o generateTerminatingNode(nl)
        bytes == nodeListToByteList(kept)
        numberOfRecords == (Len(bytes) + maxByteCount - 1) \div maxByteCount
    IN [lines |-> [i \in 1..numberOfRecords |->
                      encodeDataRecord(
                          SubSeq(bytes, (i - 1) * maxByteCount + 1,
                                 IF i * maxByteCount < Len(bytes)
                                 THEN i * maxByteCount ELSE Len(bytes)),
                          startAddress + (i - 1) * maxByteCount)]
                  \o <<EndRecord>>,
        nodeList |-> kept]

\* a writeHexFile that writes the full records only
writeHexFile_FullRecordsOnly(nl, startAddress, maxByteCount) ==
    LET bytes == nodeListToByteList(nl \o generateTerminatingNode(nl))
        numberOfFullRecords == Len(bytes) \div maxByteCount
    IN [lines |-> [i \in 1..numberOfFullRecords |->
                      encodeDataRecord(
                          SubSeq(bytes, (i - 1) * maxByteCount + 1, i * maxByteCount),
                          startAddress + (i - 1) * maxByteCount)]
                  \o <<EndRecord>>,
        nodeList |-> nl]

\* krf.writeHexFile: the lines written, and self.nodeList after the call
writeHexFile(nl, startAddress, maxByteCount) ==
    LET bytes == nodeListToByteList(nl \o generateTerminatingNode(nl))
        numberOfFullRecords == Len(bytes) \div maxByteCount
        partialRecordLength == Len(bytes) % maxByteCount
        fullRecords == [i \in 1..numberOfFullRecords |->
                           SubSeq(bytes, (i - 1) * maxByteCount + 1, i * maxByteCount)]
        records == IF partialRecordLength # 0
                   THEN Append(fullRecords,
                               SubSeq(bytes, numberOfFullRecords * maxByteCount + 1,
                                      numberOfFullRecords * maxByteCount + partialRecordLength))
                   ELSE fullRecords
    IN [lines |-> [i \in 1..Len(records) |->
                      encodeDataRecord(records[i], startAddress + (i - 1) * maxByteCount)]
                  \o <<EndRecord>>,
        nodeList |-> nl]

RECURSIVE Flatten(_)
Flatten(lists) == IF lists = <<>> THEN <<>> ELSE Head(lists) \o Flatten(Tail(lists))

HexValue(c) == CHOOSE d \in 0..15 : HexChars[d + 1] = c
\* the data bytes a data record line carries: the characters between the
\* record type and the last two characters of the line
DataOf(line) ==
    [i \in 1..((Len(line) - 11) \div 2) |->
        HexValue(line[8 + 2 * i]) * 16 + HexValue(line[9 + 2 * i])]
\* the byte image of a file: the data of its lines but the end record
ImageOf(file) == Flatten([i \in 1..(Len(file) - 1) |-> DataOf(file[i])])

\* the test of krf.findLastNodeIndex on one node
IsLastNode(node) ==
    node.routing = "isolated" /\ node.connection = "none" /\ node.orientation = "none"

\* krf.findLastNodeIndex: the index, counted from 0, of the first node that
\* passes the test, as <<index>>; <<>> stands for None, returned when the loop
\* ends without a find
findLastNodeIndex(extendedNodeList) ==
    LET found == {i \in 1..Len(extendedNodeList) : IsLastNode(extendedNodeList[i])}
    IN IF found = {} THEN <<>>
       ELSE <<(CHOOSE i \in found : \A j \in found : i <= j) - 1>>

\* the end of krf.loadFromChip: the nodeList kept from the bytes read
\* (extendedNodeList[0:None] is the whole list)
loadFromChip(memoryList) ==
    LET extendedNodeList == byteListToNodeList(memoryListToByteList(memoryList))
        last == findLastNodeIndex(extendedNodeList)
    IN IF last = <<>> THEN extendedNodeList
       ELSE SubSeq(extendedNodeList, 1, last[1])

\* what the program memory may hold after the image of a file: nothing, erased
\* flash, an end that is no whole descriptor, and older data that holds a
\* terminator of its own
MemoryTails == {<<>>, <<255, 255, 255>>, <<255, 255>>, <<0, 0, 0, 204, 0, 0>>}

\* the descriptors nodeLists are made of: one of them reads like a terminator
HexSamples ==
    {Descriptor("endpoint", "pad", "compressed", 30, 0),
     Descriptor("midpoint", "none", "none", 30, 20),
     Descriptor("tee", "smd", "horizontal", 511, 511),
     Descriptor("isolated", "none", "none", 0, 0)}

\* a nodeList that packs, with its terminator, into full records only:
\* DefaultMaxByteCount descriptors of 3 bytes are 3 records
FullRecordsList ==
    [i \in 1..(DefaultMaxByteCount - 1) |->
        [(IF i % 2 = 1 THEN Descriptor("endpoint", "pad", "compressed", 30, i)
                       ELSE Descriptor("midpoint", "none", "none", i, 20))
            EXCEPT !.node = i]]

InitHex ==
    /\ pc = "hex"
    /\ recordData = <<>>
    /\ recordAddress = 0
    /\ record = <<>>
    /\ krfs = <<>>
    /\ \/ \E n \in 0..MaxHexNodes : \E ds \in [1..n -> HexSamples] :
             nodeList = [i \in 1..n |-> [ds[i] EXCEPT !.node = i]]
       \/ nodeList = FullRecordsList
    /\ hexFiles = <<>>
    /\ sim = sim_initializeParameters
    /\ nodes = <<>>
    /\ attachments = <<>>
    /\ wires = <<>>
    /\ serialStream = <<>>
    /\ walk = <<>>
    /\ krfFile = <<>>
    /\ packIn = NoDescriptor
    /\ byteList = <<>>
    /\ unpacked = <<>>
    /\ signals = <<>>
    /\ boardStream = <<>>

\* one call of krf.writeHexFile with its default arguments
WriteHexFile ==
    /\ pc = "hex"
    /\ Len(hexFiles) < MaxWrites
    /\ LET r == writeHexFile(nodeList, DefaultStartAddress, DefaultMaxByteCount)
       IN /\ hexFiles' = Append(hexFiles, r.lines)
          /\ nodeList' = r.nodeList
    /\ UNCHANGED <<pc, sigVars, serialStream, walk, krfFile, sim, packVars, boardVars, recVars, krfs>>

\* krf.loadFromChip on a chip that holds the file written last, by an instance
\* of its own whose nodeList is kept in unpacked
LoadFromChip(tail) ==
    /\ pc = "hex"
    /\ hexFiles # <<>>
    /\ unpacked' = loadFromChip(ImageOf(hexFiles[Len(hexFiles)]) \o tail)
    /\ pc' = "chipLoaded"
    /\ UNCHANGED <<sigVars, serialStream, walk, krfFile, nodeList, sim, packIn, byteList,
                   boardVars, hexFiles, recVars, krfs>>

NextHex == WriteHexFile \/ \E tail \in MemoryTails : LoadFromChip(tail)

SpecHex == InitHex /\ [][NextHex]_vars

---------------------------------------------------------------------------
(* krf.encodeDataRecord alone, on any non-empty data list and address.     *)

\* most data bytes handed to encodeDataRecord
MaxRecordBytes == 3

ByteSamples == {0, 1, 16, 129, 255}
AddressSamples == {0, DefaultStartAddress, DefaultStartAddress + DefaultMaxByteCount, 65535}

InitRecord ==
    /\ pc = "record"
    /\ \E n \in 1..MaxRecordBytes : recordData \in [1..n -> ByteSamples]
    /\ recordAddress \in AddressSamples
    /\ record = <<>>
    /\ krfs = <<>>
    /\ nodes = <<>>
    /\ attachments = <<>>
    /\ wires = <<>>
    /\ serialStream = <<>>
    /\ walk = <<>>
    /\ krfFile = <<>>
    /\ nodeList = <<>>
    /\ sim = sim_initializeParameters
    /\ packIn = NoDescriptor
    /\ byteList = <<>>
    /\ unpacked = <<>>
    /\ signals = <<>>
    /\ boardStream = <<>>
    /\ hexFiles = <<>>

\* one call of krf.encodeDataRecord
EncodeDataRecord ==
    /\ pc = "record"
    /\ record' = encodeDataRecord(recordData, recordAddress)
    /\ pc' = "encoded"
    /\ UNCHANGED <<sigVars, serialStream, walk, krfFile, nodeList, sim, packVars,
                   boardVars, hexFiles, recordData, recordAddress, krfs>>

NextRecord == EncodeDataRecord

SpecRecord == InitRecord /\ [][NextRecord]_vars

---------------------------------------------------------------------------
(* board.__init__ / convertBRDToKRF: a board of several signals, each      *)
(* built whole by signal.__init__, serialized into one stream, written,    *)
(* loaded and decoded.                                                     *)

\* most signals on a board
MaxSignals == 2
\* most wire segments in one signal of a board
MaxSignalWires == 3

\* the wires a signal of the board may hold: those among the first four
\* positions, each listed once, in the order of the board file
BoardWires ==
    {w \in Points \X Points :
        PointIndex(w[1]) < PointIndex(w[2]) /\ PointIndex(w[2]) <= 4}
BoardWireLists ==
    {ws \in UNION {[1..n -> BoardWires] : n \in 1..MaxSignalWires} :
        \A i \in 1..(Len(ws) - 1) : WireRank(ws[i]) < WireRank(ws[i + 1])}

\* signal.__init__: "for wire in self.wires: self.addWire(wire)"
RECURSIVE addWires(_, _, _)
addWires(nds, att, ws) ==
    IF ws = <<>> THEN [nodes |-> nds, attachments |-> att]
    ELSE LET g == addWire(nds, att, Head(ws)[1], Head(ws)[2])
         IN addWires(g.nodes, g.attachments, Tail(ws))

newSignal(ws) ==
    LET g == addWires(<<>>, <<>>, ws)
    IN [nodes |-> g.nodes, attachments |-> g.attachments, wires |-> ws]

\* a stream that puts an Isolated descriptor, written <<0, 0>>, between the
\* sequences of two signals
RECURSIVE boardSerialize_Separated(_, _, _)
boardSerialize_Separated(sigs, i, acc) ==
    IF i > Len(sigs) THEN [status |-> "returned", stream |-> acc]
    ELSE LET r == serialize(sigs[i].nodes, sigs[i].attachments)
         IN IF r.status # "returned"
            THEN [status |-> r.status, stream |-> acc]
            ELSE boardSerialize_Separated(sigs, i + 1,
                    (IF i > 1 THEN Append(acc, <<0, 0>>) ELSE acc)
                        \o [j \in 1..Len(r.stream) |-> <<i, r.stream[j]>>])

\* "for thisSignal in self.signals: self.stream += thisSignal.serialize()",
\* from signal i on; an exception raised by serialize ends it
RECURSIVE boardSerialize(_, _, _)
boardSerialize(sigs, i, acc) ==
    IF i > Len(sigs) THEN [status |-> "returned", stream |-> acc]
    ELSE LET r == serialize(sigs[i].nodes, sigs[i].attachments)
         IN IF r.status # "returned"
            THEN [status |-> r.status, stream |-> acc]
            ELSE boardSerialize(sigs, i + 1,
                    acc \o [j \in 1..Len(r.stream) |-> <<i, r.stream[j]>>])

\* convertPCB.writeKRF on the stream of a board
writeBoardKRF(sigs, strm) ==
    LET descriptor(e) == nodeString(sigs[e[1]].nodes, sigs[e[1]].attachments, e[2])
    IN IF \E i \in 1..Len(strm) : descriptor(strm[i]) = "None"
       THEN [status |-> "TypeError", lines |-> <<>>]
       ELSE [status |-> "written",
             lines |-> [i \in 1..Len(strm) |->
                           [index |-> i,
                            descriptor |-> descriptor(strm[i]),
                            x |-> sigs[strm[i][1]].nodes[strm[i][2]][1],
                            y |-> sigs[strm[i][1]].nodes[strm[i][2]][2]]]]

InitBoard ==
    /\ pc = "board"
    /\ recordData = <<>>
    /\ recordAddress = 0
    /\ record = <<>>
    /\ krfs = <<>>
    /\ signals = <<>>
    /\ boardStream = <<>>
    /\ nodes = <<>>
    /\ attachments = <<>>
    /\ wires = <<>>
    /\ serialStream = <<>>
    /\ walk = <<>>
    /\ krfFile = <<>>
    /\ nodeList = <<>>
    /\ sim = sim_initializeParameters
    /\ packIn = NoDescriptor
    /\ byteList = <<>>
    /\ unpacked = <<>>
    /\ hexFiles = <<>>

\* "signal(thisSignal, self.connections)" for the next signal of the file
NewSignal(ws) ==
    /\ pc = "board"
    /\ Len(signals) < MaxSignals
    /\ signals' = Append(signals, newSignal(ws))
    /\ UNCHANGED <<pc, boardStream, sigVars, serialStream, walk, krfFile, nodeList,
                   sim, packVars, hexFiles, recVars, krfs>>

\* the serialization loop of board.__init__
SerializeBoard ==
    /\ pc = "board"
    /\ signals # <<>>
    /\ LET r == boardSerialize(signals, 1, <<>>)
       IN /\ boardStream' = r.stream
          /\ pc' = IF r.status = "returned" THEN "boardSerialized" ELSE "boardError"
    /\ UNCHANGED <<signals, sigVars, serialStream, walk, krfFile, nodeList, sim,
                   packVars, hexFiles, recVars, krfs>>

\* writeKRF(stream, krfFilename) in convertBRDToKRF
WriteBoardKRF ==
    /\ pc = "boardSerialized"
    /\ LET r == writeBoardKRF(signals, boardStream)
       IN /\ krfFile' = r.lines
          /\ pc' = IF r.status = "written" THEN "written" ELSE "writeError"
    /\ UNCHANGED <<boardVars, sigVars, serialStream, walk, nodeList, sim,
                   packVars, hexFiles, recVars, krfs>>

NextBoard ==
    \/ \E ws \in BoardWireLists : NewSignal(ws)
    \/ SerializeBoard
    \/ WriteBoardKRF
    \/ LoadFromFile
    \/ TraverseNodeList

SpecBoard == InitBoard /\ [][NextBoard]_vars

---------------------------------------------------------------------------
(* One signal whose wire segments come in any order, either way round,     *)
(* repeated or with both ends on one point.                                *)

\* most wire segments handed to addWire
MaxBuildWires == 3

\* the positions the segments join: the lower 2 x 2 of the grid and a third
\* point in line with two of them
BuildPoints == {p \in Points : p[2] <= 1} \cup {<<0, 2>>}

\* signal.addWire on any segment
AddAnyWire(p1, p2) ==
    /\ pc = "build"
    /\ Len(wires) < MaxBuildWires
    /\ LET g == addWire(nodes, attachments, p1, p2)
       IN /\ nodes' = g.nodes
          /\ attachments' = g.attachments
    /\ wires' = Append(wires, <<p1, p2>>)
    /\ UNCHANGED <<pc, serialStream, walk, krfFile, nodeList, sim, packVars,
                   boardVars, hexFiles, recVars, krfs>>

NextBuild ==
    \/ \E p1 \in BuildPoints, p2 \in BuildPoints : AddAnyWire(p1, p2)
    \/ Serialize

SpecBuild == Init /\ [][NextBuild]_vars

---------------------------------------------------------------------------
(* Vocabulary of the properties.                                           *)

Degree(n) == Len(attachments[n])
DegreesAtMost3 == \A n \in 1..Len(nodes) : Degree(n) <= 3

\* the wire segments as unordered pairs of nodes
WireSet == {{doesNodeExist(nodes, wires[i][1]), doesNodeExist(nodes, wires[i][2])} :
                i \in 1..Len(wires)}

RECURSIVE ReachFrom(_)
ReachFrom(S) ==
    LET T == S \cup UNION {{attachments[n][i] : i \in 1..Len(attachments[n])} : n \in S}
    IN IF T = S THEN S ELSE ReachFrom(T)

\* connected, acyclic, at least one wire, no segment given twice
IsTree ==
    /\ wires # <<>>
    /\ \A i \in 1..Len(wires) : wires[i][1] # wires[i][2]
    /\ Cardinality(WireSet) = Len(wires)
    /\ Len(nodes) = Len(wires) + 1
    /\ ReachFrom({1}) = 1..Len(nodes)

\* no two wires leave a node in the same direction
NoOverlap ==
    \A n \in 1..Len(nodes) : \A i, j \in 1..Len(attachments[n]) :
        i < j =>
            LET u == ExitVec(nodes, n, attachments[n][i])
                v == ExitVec(nodes, n, attachments[n][j])
            IN ~(Cross(u, v) = 0 /\ Dot(u, v) > 0)

\* the conversion of the signal has ended, one way or the other
Finished == pc \in {"serializeError", "writeError", "traversed"}

\* the node of the graph a decoded stop stands on (0: none)
StopNode(stop) == doesNodeExist(nodes, <<stop.xPosition, stop.yPosition>>)

\* the stop carries the position, role and classification of a graph node
StopIsOriginal(stop) ==
    LET n == StopNode(stop)
    IN /\ n # 0
       /\ Degree(n) \in 0..3
       /\ stop.routing = routingOfCode(routingDict[Degree(n)])
       /\ stop.connection = findConnection(nodes[n]).type
       /\ stop.orientation = findConnection(nodes[n]).orientation

\* the directed steps <<from, to>> of a list of stops, as nodes
Crossings(path) == [i \in 1..(Len(path) - 1) |-> <<StopNode(path[i]), StopNode(path[i + 1])>>]
AllCrossings == Flatten([i \in 1..Len(sim.travelList) |-> Crossings(sim.travelList[i])])
TimesCrossed(a, b) == Cardinality({i \in 1..Len(AllCrossings) : AllCrossings[i] = <<a, b>>})

---------------------------------------------------------------------------
(* Round trip of a signal.                                                 *)

\* C1: round trip, on the tree-shaped signals with degrees <= 3 that the
\* claim covers: decoding the serialized signal returns paths whose stops are
\* nodes of the graph with their position and classification, whose
\* consecutive stops are joined by a wire, and which traverse every wire
C1_RoundTrip ==
    (IsTree /\ DegreesAtMost3 /\ Finished) =>
        /\ pc = "traversed"
        /\ sim.pc = "returned"
        /\ \A i \in 1..Len(sim.travelList) : \A j \in 1..Len(sim.travelList[i]) :
                StopIsOriginal(sim.travelList[i][j])
        /\ \A i \in 1..Len(AllCrossings) :
                {AllCrossings[i][1], AllCrossings[i][2]} \in WireSet
        /\ {{AllCrossings[i][1], AllCrossings[i][2]} : i \in 1..Len(AllCrossings)} = WireSet

\* C2: for a tree-shaped signal the stops the decoder emits are, stop for
\* stop, the nodes the serializer's walk stepped on, from the start node back
\* to the start node
C2_StopsAreTheWalk ==
    (IsTree /\ DegreesAtMost3 /\ Finished) =>
        /\ pc = "traversed"
        /\ sim.pc = "returned"
        /\ LET stops == Flatten(sim.travelList)
           IN /\ Len(stops) = Len(walk)
              /\ \A i \in 1..Len(stops) : StopNode(stops[i]) = walk[i]
        /\ \A n \in 1..Len(nodes) :
              Cardinality({i \in 1..Len(walk) : walk[i] = n})
                 = IF n = walk[1] THEN 2 ELSE Degree(n)

\* C3: single occurrence, on tree-shaped signals: serialize returns a
\* sequence in which every node of the graph appears exactly once
C3_SingleOccurrence ==
    (IsTree /\ pc # "build") =>
        /\ pc # "serializeError"
        /\ \A n \in 1..Len(nodes) :
              Cardinality({i \in 1..Len(serialStream) : serialStream[i] = n}) = 1

\* three wires sharing one centre point and leaving it in three directions
PlusShape ==
    /\ Len(wires) = 3
    /\ Len(nodes) = 4
    /\ \E c \in 1..Len(nodes) : Degree(c) = 3
    /\ NoOverlap
TeeNode == CHOOSE c \in 1..Len(nodes) : Degree(c) = 3

\* what both readings of C4 say of the serialized plus shape: 4 nodes, the
\* three Endpoints and the Tee once
PlusSerialized ==
    /\ pc = "traversed"
    /\ Len(nodeList) = 4
    /\ Cardinality({i \in 1..4 : nodeList[i].routing = "tee"}) = 1
    /\ Cardinality({i \in 1..4 : nodeList[i].routing = "endpoint"}) = 3
    /\ sim.pc = "returned"

\* C4 as claimed: the plus shape decodes to exactly 3 paths, each touching
\* the Tee, which together cross each wire exactly once
C4_PlusShapeThreePaths ==
    (PlusShape /\ Finished) =>
        /\ PlusSerialized
        /\ Len(sim.travelList) = 3
        /\ \A i \in 1..Len(sim.travelList) :
              \E j \in 1..Len(sim.travelList[i]) : StopNode(sim.travelList[i][j]) = TeeNode
        /\ \A w \in WireSet : \E a, b \in w :
              a # b /\ TimesCrossed(a, b) + TimesCrossed(b, a) = 1

\* C4 amended: the plus shape decodes to exactly 1 path of 7 stops, which
\* starts and ends on the start Endpoint, stands on the Tee at stops 2, 4 and
\* 6, and crosses each wire exactly twice, once in each direction
C4_PlusShapeOnePath ==
    (PlusShape /\ Finished) =>
        /\ PlusSerialized
        /\ Len(sim.travelList) = 1
        /\ Len(sim.travelList[1]) = 7
        /\ sim.travelList[1][1] = nodeList[1]
        /\ sim.travelList[1][7] = nodeList[1]
        /\ \A j \in {2, 4, 6} : StopNode(sim.travelList[1][j]) = TeeNode
        /\ \A j \in {1, 3, 5, 7} : sim.travelList[1][j].routing = "endpoint"
        /\ \A w \in WireSet : \A a, b \in w : a # b => TimesCrossed(a, b) = 1

C4_Witness ==
    /\ PlusShape
    /\ pc = "traversed"
    /\ Len(sim.travelList) = 1
    /\ nodes[TeeNode] = <<0, 1>>

\* one wire segment between two different points
SingleWire == Len(wires) = 1 /\ Len(nodes) = 2

\* C5 as claimed: one wire serializes to 2 nodes and decodes to exactly one
\* path, of 2 nodes
C5_OneWireTwoStops ==
    (SingleWire /\ Finished) =>
        /\ pc = "traversed"
        /\ Len(nodeList) = 2
        /\ sim.pc = "returned"
        /\ Len(sim.travelList) = 1
        /\ Len(sim.travelList[1]) = 2

\* C5 amended: one wire serializes to 2 nodes, both Endpoints, and decodes to
\* exactly one path, of 3 stops on the 2 nodes: start, far end, start
C5_OneWireThreeStops ==
    (SingleWire /\ Finished) =>
        /\ pc = "traversed"
        /\ Len(nodeList) = 2
        /\ nodeList[1].routing = "endpoint" /\ nodeList[2].routing = "endpoint"
        /\ nodeList[1] # nodeList[2]
        /\ sim.pc = "returned"
        /\ sim.travelList = << <<nodeList[1], nodeList[2], nodeList[1]>> >>

C5_Witness ==
    /\ SingleWire
    /\ pc = "traversed"
    /\ Len(sim.travelList[1]) = 3

\* C6: the decoder fails on every non-empty proper prefix of the sequence of
\* a tree-shaped signal: it raises and returns no travelList
C6_TruncatedFails ==
    (IsTree /\ DegreesAtMost3 /\ pc = "traversedTruncated") =>
        /\ Len(nodeList) \in 1..(Len(serialStream) - 1)
        /\ sim.pc = "IndexError"

C6_Witness ==
    /\ IsTree
    /\ pc = "traversedTruncated"
    /\ Len(serialStream) = 6
    /\ Len(nodeList) = 5
    /\ nodeList[2].routing = "tee"
    /\ sim.pc = "IndexError"
    /\ Len(sim.pathList) > 5

---------------------------------------------------------------------------
(* The decoder on arbitrary sequences.                                     *)

\* C7: the decode loop has no iteration that leaves the read head where it
\* was: while the loop runs, every iteration moves the head, changes the
\* junction record or the flags, returns or raises
C7_EveryIterationAdvances ==
    [][sim.pc = "loop" => ReadHead(sim') # ReadHead(sim)]_vars

---------------------------------------------------------------------------
(* The 3-byte packing.                                                     *)

CoordInRange(k) == 0 <= k /\ k <= 511
Word == byteList[1] * 65536 + byteList[2] * 256 + byteList[3]
\* bits hi .. lo of v
Bits(v, hi, lo) == (v \div (2 ^ lo)) % (2 ^ (hi - lo + 1))

\* C8: unpacking the packed bytes of a descriptor with X, Y in 0 .. 511
\* hundredths returns the descriptor
C8_UnpackPack ==
    (pc = "unpacked" /\ CoordInRange(packIn.xPosition) /\ CoordInRange(packIn.yPosition)) =>
        unpacked = <<packIn>>

\* C9: a descriptor with X or Y outside 0 .. 511 is rejected; no bytes come
\* out in which the out-of-range coordinate has altered another field
C9_RangeCheck ==
    (pc = "unpacked" /\ ~(CoordInRange(packIn.xPosition) /\ CoordInRange(packIn.yPosition))) =>
        \/ byteList = <<>>
        \/ /\ unpacked[1].routing = packIn.routing
           /\ unpacked[1].connection = packIn.connection
           /\ unpacked[1].orientation = packIn.orientation
           /\ CoordInRange(packIn.xPosition) =>
                 unpacked[1].xPosition = Hundredths(packIn.xPosition)
           /\ CoordInRange(packIn.yPosition) =>
                 unpacked[1].yPosition = Hundredths(packIn.yPosition)

RoleCode(r) ==
    CASE r = "endpoint" -> 0 [] r = "midpoint" -> 1 [] r = "tee" -> 2 [] r = "isolated" -> 3
ConnectionCode(c) ==
    CASE c = "none" -> 0 [] c = "pad" -> 1 [] c = "smd" -> 2 [] c = "hole" -> 3
OrientationCode(o) ==
    CASE o = "vertical" -> 0 [] o = "horizontal" -> 1 [] o = "compressed" -> 2
      [] o = "none" -> 3

\* C10: the bit layout, for X, Y in range: the three bytes are the 24-bit
\* word, most significant byte first, with the role in bits 23..22, the
\* connection in 21..20, the orientation in 19..18, the X the packer computed
\* in 17..9 and its Y in 8..0, and the unpacker reads every field from those
\* bits
C10_BitLayout ==
    (pc \in {"packed", "unpacked"}
        /\ CoordInRange(packIn.xPosition) /\ CoordInRange(packIn.yPosition)) =>
        /\ Len(byteList) = 3
        /\ \A i \in 1..3 : byteList[i] \in 0..255
        /\ Bits(Word, 23, 22) = RoleCode(packIn.routing)
        /\ Bits(Word, 21, 20) = ConnectionCode(packIn.connection)
        /\ Bits(Word, 19, 18) = OrientationCode(packIn.orientation)
        /\ Bits(Word, 17, 9) = Hundredths(packIn.xPosition)
        /\ Bits(Word, 8, 0) = Hundredths(packIn.yPosition)
        /\ pc = "unpacked" =>
              /\ Len(unpacked) = 1
              /\ RoleCode(unpacked[1].routing) = Bits(Word, 23, 22)
              /\ ConnectionCode(unpacked[1].connection) = Bits(Word, 21, 20)
              /\ OrientationCode(unpacked[1].orientation) = Bits(Word, 19, 18)
              /\ unpacked[1].xPosition = Bits(Word, 17, 9)
              /\ unpacked[1].yPosition = Bits(Word, 8, 0)

C10_Witness ==
    /\ pc = "unpacked"
    /\ packIn = Descriptor("tee", "pad", "compressed", 511, 256)
    /\ byteList = <<155, 255, 0>>
    /\ unpacked = <<packIn>>

---------------------------------------------------------------------------
(* The hex file.                                                           *)

\* C11: every file written by writeHexFile carries the packing of the nodes
\* of nodeList in order followed by exactly one terminator (Isolated, none,
\* none, X = Y = 0), and nodeList is as it was, however often it is written
C11_Terminator ==
    \A k \in 1..Len(hexFiles) :
        LET image == ImageOf(hexFiles[k])
            last == byteListToNodeList(
                        <<SubSeq(image, Len(image) - 2, Len(image))>>)[1]
        IN /\ Len(image) = 3 * (Len(nodeList) + 1)
           /\ SubSeq(image, 1, 3 * Len(nodeList)) = nodeListToByteList(nodeList)
           /\ last.routing = "isolated" /\ last.connection = "none"
           /\ last.orientation = "none" /\ last.xPosition = 0 /\ last.yPosition = 0
           /\ \A i \in 1..Len(nodeList) : nodeList[i].node = i

C11_Witness ==
    /\ Len(hexFiles) = 2
    /\ Len(nodeList) = 5
    /\ Len(hexFiles[2]) = 3
    /\ nodeList[3].routing = "isolated"
    /\ nodeList[5].routing = "tee"

---------------------------------------------------------------------------
(* The stream of a board.                                                  *)

\* the sequences serialize returns for the signals of the board
RECURSIVE StreamsUpTo(_)
StreamsUpTo(k) ==
    IF k = 0 THEN <<>>
    ELSE Append(StreamsUpTo(k - 1),
                serialize(signals[k].nodes, signals[k].attachments).stream)
SignalStreams == StreamsUpTo(Len(signals))
\* where the sequence of signal i begins in a stream in which gap
\* descriptors stand between the sequences of two signals
RECURSIVE OffsetIn(_, _, _)
OffsetIn(streams, i, gap) ==
    IF i = 1 THEN 0
    ELSE OffsetIn(streams, i - 1, gap) + Len(streams[i - 1]) + gap
StreamOffset(i, gap) == OffsetIn(SignalStreams, i, gap)
\* the stream holds the sequences of the signals, in signal order, gap
\* elements apart
ConcatenatedIn(streams, gap) ==
    /\ Len(boardStream) =
          OffsetIn(streams, Len(signals), gap) + Len(streams[Len(signals)])
    /\ \A i \in 1..Len(signals) : \A j \in 1..Len(streams[i]) :
          boardStream[OffsetIn(streams, i, gap) + j] = <<i, streams[i][j]>>
Concatenated(gap) == ConcatenatedIn(SignalStreams, gap)
\* the element of the stream is a node without attachments
IsolatedElement(e) ==
    \/ e = <<0, 0>>
    \/ e[1] \in 1..Len(signals) /\ Len(signals[e[1]].attachments[e[2]]) = 0

\* C12 as claimed: the sequences of the signals are concatenated in signal
\* order and an Isolated descriptor stands between each two consecutive ones
C12_SeparatedByIsolated ==
    (pc = "boardSerialized" /\ Len(signals) >= 2) =>
        LET streams == SignalStreams
        IN /\ ConcatenatedIn(streams, 1)
           /\ \A i \in 2..Len(signals) :
                 IsolatedElement(boardStream[OffsetIn(streams, i, 1)])

\* C12 amended: the sequences of the signals are concatenated in signal
\* order with nothing between them: the last node of one signal is followed
\* directly by the start node of the next, and no element is Isolated
C12_PlainConcatenation ==
    (pc = "boardSerialized" /\ Len(signals) >= 2) =>
        LET streams == SignalStreams
        IN /\ ConcatenatedIn(streams, 0)
           /\ \A x \in 1..Len(boardStream) : ~IsolatedElement(boardStream[x])
           /\ \A i \in 2..Len(signals) :
                 /\ boardStream[OffsetIn(streams, i, 0)][1] = i - 1
                 /\ boardStream[OffsetIn(streams, i, 0) + 1] =
                       <<i, getStartNode(signals[i].nodes, signals[i].attachments)>>

C12_Witness ==
    /\ pc = "boardSerialized"
    /\ Len(signals) = 2
    /\ Len(signals[1].wires) = 3
    /\ Len(signals[2].wires) = 2
    /\ Len(boardStream) = 7

---------------------------------------------------------------------------
(* The builder.                                                            *)

\* C13: a signal in which some coordinate is touched by more than 3
\* segments is stopped when its graph is built: it is never serialized and
\* no sequence is produced for it
C13_TooManySegmentsAborts ==
    (\E n \in 1..Len(nodes) : Degree(n) > 3) =>
        /\ pc \notin {"serialized", "written", "loaded", "truncated",
                      "traversed", "traversedTruncated"}
        /\ serialStream = <<>>

\* C14: after any sequence of addWire calls, segments with both ends on one
\* coordinate included, no two nodes of signal.nodes have the same position
C14_OneNodePerCoordinate ==
    \A m, n \in 1..Len(nodes) : m # n => nodes[m] # nodes[n]

\* the distinct segments, as sets of end points, that touch node n
SegmentsAt(n) ==
    {{wires[i][1], wires[i][2]} :
        i \in {j \in 1..Len(wires) : nodes[n] \in {wires[j][1], wires[j][2]}}}

\* C15: the degree of a node, which gives its role, is the number of
\* distinct segments touching it, so a segment supplied a second time, either
\* way round, changes no degree (segments joining two different points)
C15_DegreeCountsDistinctSegments ==
    (\A i \in 1..Len(wires) : wires[i][1] # wires[i][2]) =>
        \A n \in 1..Len(nodes) : Degree(n) = Cardinality(SegmentsAt(n))

\* C16: the first element of the sequence serialize returns is a node of
\* degree 1 whose Y is at least the Y of every other node of degree 1
C16_StartIsHighestEndpoint ==
    pc = "serialized" =>
        /\ serialStream # <<>>
        /\ Degree(serialStream[1]) = 1
        /\ \A m \in 1..Len(nodes) :
              Degree(m) = 1 => nodes[m][2] <= nodes[serialStream[1]][2]

C16_Witness ==
    /\ pc = "serialized"
    /\ Len(wires) = 3
    /\ Len(nodes) = 4
    /\ serialStream[1] = 3
    /\ \E m \in 1..Len(nodes) : Degree(m) = 1 /\ nodes[m][2] < nodes[serialStream[1]][2]
    /\ \E m \in 1..Len(nodes) : Degree(m) = 3

\* the nodes of degree 1 that share the greatest Y among them
HighestEndpoints ==
    {n \in 1..Len(nodes) :
        /\ Degree(n) = 1
        /\ \A m \in 1..Len(nodes) : Degree(m) = 1 => nodes[m][2] <= nodes[n][2]}

\* C17 as claimed: among several highest endpoints serialize starts on the
\* one created first
C17_TieBreakFirstCreated ==
    pc = "serialized" =>
        /\ serialStream[1] \in HighestEndpoints
        /\ \A m \in HighestEndpoints : serialStream[1] <= m

\* C17 amended: among several highest endpoints serialize starts on the one
\* created last
C17_TieBreakLastCreated ==
    pc = "serialized" =>
        /\ serialStream[1] \in HighestEndpoints
        /\ \A m \in HighestEndpoints : m <= serialStream[1]

C17_Witness ==
    /\ pc = "serialized"
    /\ Cardinality(HighestEndpoints) = 2
    /\ \E m \in HighestEndpoints : m < serialStream[1]
    /\ \A i \in 1..Len(wires) : wires[i][1] # wires[i][2]
    /\ C14_OneNodePerCoordinate

---------------------------------------------------------------------------
(* The boundary walk.                                                      *)

\* how often the walk steps from node a directly to node b
TimesStepped(a, b) ==
    Cardinality({i \in 1..(Len(walk) - 1) : walk[i] = a /\ walk[i + 1] = b})

\* C18: for every tree-shaped signal the serialize loop ends by stepping
\* back onto the start node, which it left only once, and by then every wire
\* has been stepped across exactly twice, once in each direction
C18_BoundaryWalk ==
    (IsTree /\ pc # "build") =>
        /\ pc # "serializeError"
        /\ Len(walk) >= 2
        /\ walk[Len(walk)] = walk[1]
        /\ \A i \in 2..(Len(walk) - 1) : walk[i] # walk[1]
        /\ \A w \in WireSet : \A a, b \in w :
              a # b => TimesStepped(a, b) = 1

\* the places of the walk at which it stands on node n and steps on
DepartureIndices(n) == {j \in 1..(Len(walk) - 1) : walk[j] = n}
\* the node from which the walk first reached node n (n is not the start)
EntryOf(n) ==
    walk[(CHOOSE i \in 2..Len(walk) :
              walk[i] = n /\ \A j \in 1..(i - 1) : walk[j] # n) - 1]
\* the direction from node a to node b
Towards(a, b) == <<nodes[b][1] - nodes[a][1], nodes[b][2] - nodes[a][2]>>
\* where the edge from n to x lies for a walker who came to n from e:
\* 1 to the right, 2 straight on, 3 to the left, 0 along the edge back to e
TurnSide(n, e, x) ==
    LET h == Towards(e, n)
        d == Towards(n, x)
    IN IF Cross(h, d) < 0 THEN 1
       ELSE IF Cross(h, d) > 0 THEN 3
       ELSE IF Dot(h, d) > 0 THEN 2 ELSE 0
\* at n, reached from e, the edge to a has the smaller clockwise angle than
\* the edge to b; the edge back to e has the greatest of all
TurnsBefore(n, e, a, b) ==
    /\ a # e
    /\ \/ b = e
       \/ /\ TurnSide(n, e, a) # 0 /\ TurnSide(n, e, b) # 0
          /\ \/ TurnSide(n, e, a) < TurnSide(n, e, b)
             \/ /\ TurnSide(n, e, a) = TurnSide(n, e, b)
                /\ Cross(Towards(n, a), Towards(n, b)) > 0

\* a walker heading north (from <<1, 0>> to <<1, 1>>) at a Tee with a west
\* branch (<<0, 1>>) and an east branch (<<2, 1>>), whichever was attached
\* first: east, west, back
NorthTeeEastFirst ==
    LET nds == << <<1, 0>>, <<1, 1>>, <<2, 1>>, <<0, 1>> >>
    IN \A branches \in {<<1, 3, 4>>, <<1, 4, 3>>, <<3, 1, 4>>,
                        <<3, 4, 1>>, <<4, 1, 3>>, <<4, 3, 1>>} :
          getAttachments(nds, <<<<2>>, branches, <<2>>, <<2>>>>, 2, 1) = <<3, 4, 1>>

\* C19: a node first reached from e is left by its attachments in
\* increasing clockwise angle from the entry edge, the right-hand turn first,
\* and the edge back to e is taken last, after every other attachment
C19_TurnOrder ==
    /\ NorthTeeEastFirst
    /\ \A n \in 1..Len(nodes) :
          (walk # <<>> /\ n # walk[1] /\ \E i \in 1..Len(walk) : walk[i] = n) =>
              /\ \A j, l \in DepartureIndices(n) :
                    j < l => ~TurnsBefore(n, EntryOf(n), walk[l + 1], walk[j + 1])
              /\ \A j \in DepartureIndices(n) :
                    walk[j + 1] = EntryOf(n) =>
                        \A k \in 1..Degree(n) :
                            attachments[n][k] # EntryOf(n) =>
                                \E l \in DepartureIndices(n) :
                                    l < j /\ walk[l + 1] = attachments[n][k]

---------------------------------------------------------------------------
(* Several signals in one sequence.                                        *)

RECURSIVE ReachIn(_, _)
ReachIn(att, S) ==
    LET T == S \cup UNION {{att[n][i] : i \in 1..Len(att[n])} : n \in S}
    IN IF T = S THEN S ELSE ReachIn(att, T)

\* signal g of a board is connected and acyclic and has at least one wire
TreeSignal(g) ==
    /\ g.wires # <<>>
    /\ Len(g.nodes) = Len(g.wires) + 1
    /\ ReachIn(g.attachments, {1}) = 1..Len(g.nodes)

\* no two wires of signal g leave a node in the same direction
NoOverlapSignal(g) ==
    \A n \in 1..Len(g.nodes) : \A i, j \in 1..Len(g.attachments[n]) :
        i < j =>
            LET u == ExitVec(g.nodes, n, g.attachments[n][i])
                v == ExitVec(g.nodes, n, g.attachments[n][j])
            IN ~(Cross(u, v) = 0 /\ Dot(u, v) > 0)

\* C20: decoding the plain concatenation of the sequences of k tree-shaped
\* signals returns exactly k paths; path i holds only descriptors of signal
\* i and begins and ends with the start node of signal i
C20_OnePathPerSignal ==
    (/\ pc \in {"boardError", "writeError", "traversed"}
     /\ \A i \in 1..Len(signals) : TreeSignal(signals[i])) =>
        /\ pc = "traversed"
        /\ sim.pc = "returned"
        /\ Len(sim.travelList) = Len(signals)
        /\ \A i \in 1..Len(signals) :
              LET path == sim.travelList[i]
                  first == StreamOffset(i, 0) + 1
                  last == StreamOffset(i, 0) + Len(SignalStreams[i])
              IN /\ \A j \in 1..Len(path) : path[j].node \in first..last
                 /\ Len(path) >= 2
                 /\ path[1] = nodeList[first]
                 /\ path[Len(path)] = nodeList[first]
                 /\ boardStream[first] =
                       <<i, getStartNode(signals[i].nodes, signals[i].attachments)>>

---------------------------------------------------------------------------
(* The records of the hex file.                                            *)

\* the value of the last byte of a record: its last two characters
TrailerOf(rec) == HexValue(rec[Len(rec) - 1]) * 16 + HexValue(rec[Len(rec)])
RecordInputs ==
    {in \in (UNION {[1..n -> ByteSamples] : n \in 1..MaxRecordBytes}) \X AddressSamples : TRUE}

\* C21: the last byte of the record built by encodeDataRecord for a
\* non-empty data list is the value of the last data byte, not the checksum
\* computed from the data, and every data list with the same last byte
\* gives the same trailer at every address
C21_TrailerIsLastDataByte ==
    pc = "encoded" =>
        LET lastByte == recordData[Len(recordData)]
        IN /\ TrailerOf(record) = lastByte
           /\ SubSeq(record, Len(record) - 1, Len(record)) = hexString(lastByte, 1)
           /\ checksumOf(recordData) # lastByte =>
                 TrailerOf(record) # checksumOf(recordData)
           /\ \A in \in RecordInputs :
                 in[1][Len(in[1])] = lastByte =>
                    TrailerOf(encodeDataRecord(in[1], in[2])) = TrailerOf(record)

C21_Witness ==
    /\ pc = "encoded"
    /\ recordData = <<1, 16, 129>>
    /\ recordAddress = DefaultStartAddress
    /\ checksumOf(recordData) = 110
    /\ TrailerOf(record) = 129

\* the fields of a data record line
LengthOf(line) == HexValue(line[2]) * 16 + HexValue(line[3])
AddressOf(line) ==
    ((HexValue(line[4]) * 16 + HexValue(line[5])) * 16 + HexValue(line[6])) * 16
        + HexValue(line[7])
\* the line is a data record of k data bytes at the address
IsDataRecord(line, k, address) ==
    /\ Len(line) = 11 + 2 * k
    /\ line[1] = ":"
    /\ LengthOf(line) = k
    /\ AddressOf(line) = address
    /\ SubSeq(line, 8, 9) = <<"0", "0">>
\* the lines split the byte list into records of 16 bytes from startAddress
\* on, the last one of 1 to 16 bytes, and end with the one end record
IsRecordContainer(file, bytes, startAddress) ==
    LET n == Len(file) - 1
    IN /\ n >= 1
       /\ \A i \in 1..n :
             LET k == Len(DataOf(file[i]))
             IN /\ k \in 1..16
                /\ i < n => k = 16
                /\ IsDataRecord(file[i], k, startAddress + 16 * (i - 1))
                /\ file[i] # EndRecord
       /\ ImageOf(file) = bytes
       /\ file[n + 1] = EndRecord

\* C22: the file written by writeHexFile holds the packed byte list in
\* consecutive data records of 16 data bytes, the last one of 1 to 16,
\* record i at startAddress + 16 * i with its length field equal to its
\* number of data bytes, followed by exactly one end-of-data record
C22_RecordContainer ==
    LET bytes == nodeListToByteList(nodeList \o generateTerminatingNode(nodeList))
    IN /\ \A f \in 1..Len(hexFiles) :
             IsRecordContainer(hexFiles[f], bytes, DefaultStartAddress)
       /\ pc = "hex" =>
             \A a \in AddressSamples \ {65535} :
                IsRecordContainer(writeHexFile(nodeList, a, DefaultMaxByteCount).lines,
                                  bytes, a)

C22_Witness ==
    /\ Len(hexFiles) = 1
    /\ Len(nodeList) = MaxHexNodes
    /\ Len(hexFiles[1]) = 3
    /\ Len(DataOf(hexFiles[1][1])) = 16
    /\ Len(DataOf(hexFiles[1][2])) = 2

---------------------------------------------------------------------------
(* Decodes side by side.                                                   *)

\* the states the read head and the two lists of a decode run alone go
\* through, pass by pass
RECURSIVE SoloTrace(_, _)
SoloTrace(nl, s) ==
    IF s.pc # "loop" \/ Len(s.pathList) >= MaxStops THEN <<s>>
    ELSE LET t == LoopIteration(nl, s)
         IN IF t = s THEN <<s>> ELSE <<s>> \o SoloTrace(nl, t)
OnSoloTrace(k) ==
    LET trace == SoloTrace(krfs[k].nodeList, sim_initializeParameters)
    IN \E i \in 1..Len(trace) : trace[i] = krfs[k].sim

\* C23: however the passes of two decodes on two krf objects interleave,
\* each decode is at every moment in a state of its run alone, and when it
\* has returned or raised, its travelList and read head are those of its
\* run alone
C23_NoSharedTraversalState ==
    \A k \in 1..Len(krfs) :
        /\ OnSoloTrace(k)
        /\ krfs[k].sim.pc # "loop" =>
              krfs[k].sim = traverseNodeList(krfs[k].nodeList)

C23_Witness ==
    /\ Len(krfs) = 2
    /\ krfs[1].nodeList = NodeListOf(<<"endpoint", "tee", "midpoint", "endpoint">>)
    /\ krfs[2].nodeList = NodeListOf(<<"endpoint", "tee", "endpoint", "endpoint">>)
    /\ krfs[1].sim.direction = 0 /\ krfs[1].sim.currentPosition = 2
    /\ krfs[2].sim.pc = "returned"
    /\ Len(krfs[2].sim.travelList) = 1
    /\ Len(krfs[2].sim.travelList[1]) = 7

---------------------------------------------------------------------------
(* The text container.                                                     *)

RoleOfCount(n) ==
    CASE n = 0 -> "isolated" [] n = 1 -> "endpoint" [] n = 2 -> "midpoint"
      [] n = 3 -> "tee"
RoleLetter(n) == CASE n = 0 -> "I" [] n = 1 -> "E" [] n = 2 -> "M" [] n = 3 -> "T"
ConnectionLetter(t) ==
    CASE t = "none" -> "N" [] t = "pad" -> "P" [] t = "smd" -> "S" [] t = "hole" -> "H"
OrientationLetter(o) ==
    CASE o = "vertical" -> "V" [] o = "horizontal" -> "Z" [] o = "compressed" -> "C"
      [] o = "none" -> "X"

\* every three-letter code nodeString can build is the claimed one and is
\* read back by loadFromFile as the classification it was built from
CodesRoundTrip ==
    \A n \in 0..3 : \A t \in Connections : \A o \in Orientations :
        /\ routingDict[n] = RoleLetter(n)
        /\ connectionDict[t] = ConnectionLetter(t)
        /\ orientationDict[o] = OrientationLetter(o)
        /\ loadFromFile(<<[index |-> 1, x |-> 0, y |-> 0,
                           descriptor |-> <<routingDict[n], connectionDict[t],
                                            orientationDict[o]>>]>>)[1]
             = [node |-> 1, routing |-> RoleOfCount(n), connection |-> t,
                orientation |-> o, xPosition |-> 0, yPosition |-> 0]

---------------------------------------------------------------------------
(* The end of the data.                                                    *)

\* C25: the sequence of a valid signal followed by the terminal Isolated
\* descriptor decodes to completion: traverseNodeList returns, and the
\* travelList begins with the path of the signal
C25_TerminatedDecodes ==
    (pc = "traversedTerminated" /\ IsTree /\ NoOverlap) =>
        /\ sim.pc = "returned"
        /\ Len(sim.travelList) >= 1
        /\ sim.travelList[1] =
              traverseNodeList(SubSeq(nodeList, 1, Len(nodeList) - 1)).travelList[1]

---------------------------------------------------------------------------
(* The junction record of the decoder.                                     *)

\* the 2-bit slot number i of a junction record, slot 0 being the low-order one
SlotAt(rec, i) == (rec \div (4 ^ i)) % 4
\* the slot the read head inspects
CurrentSlot == sim.currentJunctionPosition \div 2
\* this pass of the loop reads a descriptor
Reads == sim.pc = "loop" /\ InRange(nodeList, sim.currentPosition)
NodeRead == ReadNode(nodeList, sim.currentPosition)
ReadsForward(r) ==
    Reads /\ sim.direction = 1 /\ NodeRead.routing = r /\ ~sim_isFirstNodeInPath(sim)
ReadsInReverse(r) ==
    Reads /\ sim.direction = 0 /\ NodeRead.routing = r /\ ~sim_isFirstNodeInPath(sim)
\* this pass starts a new path
StartsPath == sim'.pathList = <<>> /\ Len(sim'.travelList) = Len(sim.travelList) + 1
Emitted == sim'.pathList = Append(sim.pathList, NodeRead)
NothingEmitted == sim'.pathList = sim.pathList

\* how one pass may change the record
SlotStep ==
    LET rec == sim.junctionRecord
        new == sim'.junctionRecord
    IN \/ new = rec
       \/ StartsPath /\ new = 0
       \/ ReadsForward("tee") /\ new = 4 * rec + 1
       \/ /\ ReadsInReverse("tee")
          /\ \/ SlotAt(rec, CurrentSlot) = 1 /\ new = rec + 4 ^ CurrentSlot
             \/ SlotAt(rec, CurrentSlot) = 2 /\ new = rec - 2 * (4 ^ CurrentSlot)

\* C26: every slot of junctionRecord holds 00, 01 or 10, never 11; a slot
\* appears as 01 at the low-order end when a Tee is read forwards, and a
\* pass changes a slot only from 01 to 10 or from 10 to 00, when its Tee is
\* read in reverse (the record is emptied when a new path starts)
C26_JunctionSlotStates ==
    /\ [](\A i \in 0..MaxLen : SlotAt(sim.junctionRecord, i) \in {0, 1, 2})
    /\ [][SlotStep]_vars

C26_Witness ==
    /\ pc = "decode"
    /\ nodeList = NodeListOf(<<"endpoint", "tee", "tee", "endpoint", "endpoint">>)
    /\ sim.junctionRecord = 4
    /\ sim.currentJunctionPosition = 2
    /\ sim.direction = 0

\* how one pass may change the junction position
DepthStep ==
    /\ (Reads /\ sim.direction = 0 /\ sim'.direction = 0) =>
          sim'.currentJunctionPosition =
             sim.currentJunctionPosition + (IF NodeRead.routing = "tee" THEN 2 ELSE 0)
    /\ (StartsPath \/ sim'.terminalPosition # sim.terminalPosition) =>
          sim'.currentJunctionPosition = 0

\* C27: currentJunctionPosition is 0 whenever the direction is forwards; a
\* pass that reads a Tee in reverse and goes on in reverse adds exactly 2 to
\* it, a pass that reads another node in reverse leaves it, and a pass that
\* starts a new path or resumes forwards one past terminal sets it to 0
C27_JunctionDepth ==
    /\ [](sim.direction = 1 => sim.currentJunctionPosition = 0)
    /\ [][DepthStep]_vars

C27_Witness ==
    /\ pc = "decode"
    /\ nodeList = NodeListOf(<<"endpoint", "tee", "tee", "endpoint", "endpoint", "endpoint">>)
    /\ sim.currentPosition = 5
    /\ sim.terminalPosition = 5
    /\ sim.direction = 1
    /\ sim.currentJunctionPosition = 0
    /\ sim.junctionRecord = 8

\* the slots of the record that read 01 or 10: the open Tees
OpenSlots == {i \in 0..MaxLen : SlotAt(sim.junctionRecord, i) \in {1, 2}}
\* the Tees of the current path read forwards so far: those after the path
\* start and before terminal
TeesReadForward ==
    {p \in (sim.pathStartPosition + 1)..(sim.terminalPosition - 1) :
        InRange(nodeList, p) /\ ReadNode(nodeList, p).routing = "tee"}
AppendsSlot == [][ReadsForward("tee") => sim'.junctionRecord = 4 * sim.junctionRecord + 1]_vars

\* C28 as claimed: a Tee read forwards, not as the path start, appends the
\* slot 01 at the low-order end, and the record never exceeds 4^k - 1, k
\* being the number of Tees of the current path whose slot reads 01 or 10
C28_TwoBitsPerOpenTee ==
    /\ AppendsSlot
    /\ [](sim.junctionRecord <= 4 ^ Cardinality(OpenSlots) - 1)

\* C28 amended: a Tee read forwards, not as the path start, appends the
\* slot 01 at the low-order end, and the record holds 2 bits for every Tee
\* of the current path read forwards so far, closed ones included: it
\* never exceeds 4^m - 1, m being the number of those Tees, and as long as
\* the first of them is open it is at least 4^(m - 1)
C28_TwoBitsPerTeeRead ==
    /\ AppendsSlot
    /\ [](LET m == Cardinality(TeesReadForward)
          IN /\ sim.junctionRecord <= 4 ^ m - 1
             /\ Cardinality(OpenSlots) <= m
             /\ (m >= 1 /\ SlotAt(sim.junctionRecord, m - 1) # 0) =>
                   sim.junctionRecord >= 4 ^ (m - 1))

C28_Witness ==
    /\ pc = "decode"
    /\ nodeList = NodeListOf(<<"endpoint", "tee", "tee", "endpoint", "endpoint", "endpoint">>)
    /\ sim.junctionRecord = 4
    /\ Cardinality(OpenSlots) = 1
    /\ Cardinality(TeesReadForward) = 2
    /\ sim.currentPosition = 1

---------------------------------------------------------------------------
(* The reverse read.                                                       *)

\* C29: a pass that reads, in reverse, a Tee whose slot reads 01 turns the
\* slot to 10, emits the Tee, clears the passive flag, moves terminal on by
\* exactly one and leaves the head on the new terminal index, forwards
C29_ReverseAtOpenedTee ==
    [][(ReadsInReverse("tee") /\ SlotAt(sim.junctionRecord, CurrentSlot) = 1) =>
          /\ SlotAt(sim'.junctionRecord, CurrentSlot) = 2
          /\ sim'.junctionRecord = sim.junctionRecord + 4 ^ CurrentSlot
          /\ Emitted
          /\ sim'.passive = 0
          /\ sim'.terminalPosition = sim.terminalPosition + 1
          /\ sim'.currentPosition = sim'.terminalPosition
          /\ sim'.direction = 1
          /\ sim'.pc = "loop"]_vars

C29_Witness ==
    /\ pc = "decode"
    /\ nodeList = NodeListOf(<<"endpoint", "midpoint", "tee", "endpoint", "midpoint", "endpoint">>)
    /\ sim.junctionRecord = 2
    /\ sim.direction = 1
    /\ sim.currentPosition = 4
    /\ sim.terminalPosition = 4
    /\ sim.passive = 0
    /\ Len(sim.pathList) = 5
    /\ sim.pathList[5].node = 3

\* C30: a descriptor read in reverse is appended to the current path
\* exactly when it is the path start, a Tee whose slot reads 01 or 10 at the
\* read, or a Midpoint read with the passive flag clear; an Endpoint that is
\* not the path start and a Tee whose slot reads 00 are not emitted and set
\* the passive flag
C30_ReverseEmission ==
    [][(Reads /\ sim.direction = 0) =>
          LET slot == SlotAt(sim.junctionRecord, CurrentSlot)
              r == NodeRead.routing
          IN IF sim_isFirstNodeInPath(sim)
             THEN sim'.travelList =
                     Append(sim.travelList, Append(sim.pathList, NodeRead))
             ELSE /\ sim'.travelList = sim.travelList
                  /\ IF (r = "tee" /\ slot \in {1, 2}) \/ (r = "midpoint" /\ sim.passive = 0)
                     THEN Emitted
                     ELSE NothingEmitted
                  /\ (r = "endpoint" \/ (r = "tee" /\ slot = 0)) => sim'.passive = 1]_vars

C30_Witness ==
    /\ pc = "decode"
    /\ nodeList = NodeListOf(<<"endpoint", "tee", "tee", "endpoint", "endpoint", "endpoint">>)
    /\ sim.currentPosition = 1
    /\ sim.direction = 0
    /\ sim.junctionRecord = 8
    /\ sim.currentJunctionPosition = 2
    /\ sim.passive = 1
    /\ Len(sim.pathList) = 9
    /\ sim.pathList[9].node = 6

---------------------------------------------------------------------------
(* The positions of the read head.                                         *)

\* C31: in every decoder state pathStartPosition <= currentPosition <=
\* terminalPosition, and no pass of the loop lowers terminalPosition
C31_HeadBounds ==
    /\ [](/\ sim.pathStartPosition <= sim.currentPosition
          /\ sim.currentPosition <= sim.terminalPosition)
    /\ [][sim'.terminalPosition >= sim.terminalPosition]_vars

C31_Witness ==
    /\ pc = "decode"
    /\ nodeList = NodeListOf(<<"isolated", "endpoint", "tee", "endpoint", "endpoint">>)
    /\ sim.pathStartPosition = 1
    /\ sim.currentPosition = 2
    /\ sim.terminalPosition = 4
    /\ sim.direction = 0

\* C32: a read outside 0..len-1 stops the decode with an error and no
\* travelList is returned; the head is never below 0, so no read wraps around
ReadsOutside == sim.pc = "loop" /\ sim.currentPosition \notin 0..(Len(nodeList) - 1)
C32_IndexErrorIsFatal ==
    /\ [](sim.currentPosition >= 0)
    /\ [](sim.pc = "IndexError" => sim.currentPosition >= Len(nodeList))
    /\ [][ReadsOutside => /\ sim'.pc = "IndexError"
                          /\ sim'.travelList = sim.travelList
                          /\ sim'.pathList = sim.pathList]_vars
    /\ [][sim.pc = "IndexError" => sim' = sim]_vars

C32_Witness ==
    /\ pc = "decode"
    /\ nodeList = NodeListOf(<<"endpoint", "tee", "endpoint">>)
    /\ sim.pc = "IndexError"
    /\ sim.currentPosition = 3
    /\ sim.travelList = <<>>

\* C33: an Isolated descriptor read Forward at the start of a path closes
\* that path at once as a one-stop path, and the next path starts at the
\* following index with the junction record, the junction position and the
\* passive flag all clear
IsolatedAtStart ==
    /\ Reads
    /\ sim.direction = 1
    /\ NodeRead.routing = "isolated"
    /\ sim.currentPosition = sim.pathStartPosition
C33_IsolatedAtPathStart ==
    [][IsolatedAtStart =>
         /\ sim'.travelList = Append(sim.travelList, Append(sim.pathList, NodeRead))
         /\ sim'.pathList = <<>>
         /\ sim'.pathStartPosition = sim.currentPosition + 1
         /\ sim'.currentPosition = sim.currentPosition + 1
         /\ sim'.terminalPosition = sim.currentPosition + 1
         /\ sim'.direction = 1
         /\ sim'.junctionRecord = 0
         /\ sim'.currentJunctionPosition = 0
         /\ sim'.passive = 0
         /\ sim'.pc = "loop"]_vars
    /\ [](IsolatedAtStart => sim.pathList = <<>>)

C33_Witness ==
    /\ pc = "decode"
    /\ nodeList = NodeListOf(<<"endpoint", "endpoint", "isolated", "endpoint", "endpoint">>)
    /\ sim.pathStartPosition = 3
    /\ sim.currentPosition = 3
    /\ Len(sim.travelList) = 2
    /\ sim.travelList[2] = <<nodeList[3]>>

\* C34: forward reads happen only at the frontier: whenever the direction is
\* Forward, currentPosition = terminalPosition and the passive flag is clear;
\* each index is read Forward once, in increasing order (a pass that reads
\* Forward at p leaves the frontier at p going in reverse or moves head and
\* frontier to p + 1; a pass that reads in reverse keeps the frontier or
\* resumes Forward one past it); every Forward read is emitted
AtFrontier ==
    (sim.pc = "loop" /\ sim.direction = 1) =>
        sim.currentPosition = sim.terminalPosition /\ sim.passive = 0
ForwardReadOnce ==
    (Reads /\ sim.direction = 1) =>
        /\ Emitted \/ (StartsPath /\ sim'.travelList[Len(sim'.travelList)] = Append(sim.pathList, NodeRead))
        /\ \/ sim'.direction = 0 /\ sim'.terminalPosition = sim.currentPosition
           \/ /\ sim'.direction = 1
              /\ sim'.currentPosition = sim.currentPosition + 1
              /\ sim'.terminalPosition = sim.currentPosition + 1
ReverseKeepsFrontier ==
    (Reads /\ sim.direction = 0) =>
        \/ sim'.direction = 0 /\ sim'.terminalPosition = sim.terminalPosition
        \/ /\ sim'.direction = 1
           /\ sim'.currentPosition = sim.terminalPosition + 1
           /\ sim'.terminalPosition = sim.terminalPosition + 1
C34_ForwardAtFrontier ==
    /\ []AtFrontier
    /\ [][ForwardReadOnce]_vars
    /\ [][ReverseKeepsFrontier]_vars

\* the same, for the passes that do not read an Isolated descriptor Forward
\* inside a path
C34_ForwardAtFrontierUnlessStuck ==
    /\ []AtFrontier
    /\ [][~ReadsForward("isolated") => ForwardReadOnce]_vars
    /\ [][ReverseKeepsFrontier]_vars

\* C35: whenever the head reads a Tee in reverse, currentJunctionPosition is
\* twice the number of Tee descriptors at indices above the head's and at
\* most terminalPosition, so that the slot visited is the one pushed when
\* this Tee was read Forward; for every input sequence
TeesAbove ==
    {p \in (sim.currentPosition + 1)..sim.terminalPosition :
        InRange(nodeList, p) /\ ReadNode(nodeList, p).routing = "tee"}
C35_SlotAddressing ==
    (Reads /\ sim.direction = 0 /\ NodeRead.routing = "tee") =>
        sim.currentJunctionPosition = 2 * Cardinality(TeesAbove)

\* a closed Tee below another Tee of the same path, read in reverse
C35_Witness ==
    /\ pc = "decode"
    /\ nodeList = NodeListOf(<<"endpoint", "tee", "tee", "endpoint", "endpoint", "endpoint">>)
    /\ ReadsInReverse("tee")
    /\ sim.currentPosition = 1
    /\ sim.terminalPosition = 5
    /\ sim.currentJunctionPosition = 2
    /\ SlotAt(sim.junctionRecord, CurrentSlot) = 2
    /\ SlotAt(sim.junctionRecord, 0) = 0

---------------------------------------------------------------------------
(* The memory image read back.                                             *)

\* C36: for any node list, unpacking the bytes written by writeHexFile with
\* memoryListToByteList and byteListToNodeList and cutting at
\* findLastNodeIndex gives the node list back, whatever bytes follow the
\* terminator in memory and whatever descriptors the list holds
C36_MemoryRoundTrip == pc = "chipLoaded" => unpacked = nodeList

\* the same for the node lists none of whose descriptors is Isolated with
\* connection none and orientation none
C36_MemoryRoundTripOfOthers ==
    (pc = "chipLoaded" /\ \A i \in 1..Len(nodeList) : ~IsLastNode(nodeList[i])) =>
        unpacked = nodeList

\* a list read back in full although a terminator of older data follows it
C36_ReadBack ==
    /\ pc = "chipLoaded"
    /\ Len(nodeList) = 3
    /\ nodeList[2].routing = "tee"
    /\ unpacked = nodeList

---------------------------------------------------------------------------
(* The order of the wire segments.                                         *)

\* a segment with its ends in the order of the grid
Ordered(w) == IF PointIndex(w[1]) <= PointIndex(w[2]) THEN w ELSE <<w[2], w[1]>>
RECURSIVE SortedByRank(_)
SortedByRank(ws) ==
    IF ws = {} THEN <<>>
    ELSE LET w == CHOOSE v \in ws : \A u \in ws : WireRank(v) <= WireRank(u)
         IN <<w>> \o SortedByRank(ws \ {w})
\* the segments of the signal supplied in the order of the grid
ReorderedWires == SortedByRank({Ordered(wires[i]) : i \in 1..Len(wires)})
\* the positions of the nodes of a sequence
PositionsOf(nds, stream) == [i \in 1..Len(stream) |-> nds[stream[i]]]
\* what serialize returns for the same segments supplied in the order of the grid
ReorderedStream ==
    LET g == newSignal(ReorderedWires)
        r == serialize(g.nodes, g.attachments)
    IN [status |-> r.status, positions |-> PositionsOf(g.nodes, r.stream)]
SameAsReordered ==
    /\ pc = "serialized" =>
          /\ ReorderedStream.status = "returned"
          /\ ReorderedStream.positions = PositionsOf(nodes, serialStream)
    /\ pc = "serializeError" => ReorderedStream.status # "returned"

\* C37: for a tree-shaped signal with a unique highest Endpoint, serialize
\* returns the same sequence for every order of the wire segments and either
\* order of the two ends of each segment
C37_OrderIndependent ==
    (IsTree /\ Cardinality(HighestEndpoints) = 1) => SameAsReordered

\* the same for the trees in which no two segments leave a node in the same
\* direction
C37_OrderIndependentNoOverlap ==
    (IsTree /\ Cardinality(HighestEndpoints) = 1 /\ NoOverlap) => SameAsReordered

\* a tree of three segments serialized from segments supplied in another
\* order than the grid's
C37_Reordered ==
    /\ pc = "serialized"
    /\ IsTree
    /\ Cardinality(HighestEndpoints) = 1
    /\ NoOverlap
    /\ Len(wires) = 3
    /\ wires # ReorderedWires
    /\ Len(serialStream) = 4

---------------------------------------------------------------------------
(* A second decode on the same instance.                                   *)

\* C38: traverseNodeList sets every field of the read head anew on entry and
\* leaves nodeList as it is: called again on the same instance after a decode
\* that returned or failed, it returns the same travelList, or fails as before
C38_Reentrant ==
    [][pc' = "traversedAgain" =>
         /\ sim'.pc = sim.pc
         /\ sim'.travelList = sim.travelList
         /\ sim' = sim
         /\ nodeList' = nodeList]_vars

\* a second decode that returned its path from a read head the first decode
\* had left past the end of the list
C38_Witness ==
    /\ pc = "traversedAgain"
    /\ sim.pc = "returned"
    /\ sim.currentPosition = Len(nodeList)
    /\ Len(sim.travelList) = 1
    /\ Len(nodeList) = 4

\* a second decode that failed as the first
C38_FailedAgain ==
    /\ pc = "traversedAgain"
    /\ sim.pc = "IndexError"
    /\ Len(nodeList) = 3

---------------------------------------------------------------------------
(* The two packers.                                                        *)

\* one descriptor with both coordinates in 0..511 hundredths, packed by both
BothPacked ==
    /\ pc = "packed"
    /\ recordData # <<>>
    /\ packIn.xPosition \in 0..511
    /\ packIn.yPosition \in 0..511

\* C39: for every descriptor with X and Y in 0..511 hundredths,
\* encodeNodeList of writeHexFile.py and krf.nodeListToByteList give the same
\* three bytes
C39_PackersAgree == BothPacked => recordData = byteList

\* the two agree on the six bits of role, connection and orientation, and on
\* all three bytes where X and Y are packed as the same number
C39_PackersAgreeOnClass ==
    BothPacked =>
        /\ recordData[1] \div 4 = byteList[1] \div 4
        /\ Hundredths(packIn.xPosition) = Hundredths(packIn.yPosition) => recordData = byteList

\* the bytes of encodeNodeList read by byteListToNodeList give X for Y and Y
\* for X
C39_Swapped ==
    BothPacked =>
        LET a == byteListToNodeList(memoryListToByteList(recordData))[1]
            b == byteListToNodeList(memoryListToByteList(byteList))[1]
        IN a.xPosition = b.yPosition /\ a.yPosition = b.xPosition

=============================================================================
